---- MODULE Spec2Model ----
(***************************************************************************)
(* Model of the scaleway/k8s-agent node agent: the component lifecycle     *)
(* engine (processComponents), the version store (/etc/scw-k8s-versions    *)
(* .json), the release resolver and the node controller.                   *)
(*                                                                         *)
(* Strings whose characters matter (versions) are sequences of one         *)
(* character strings, so that expandVersion and trimVersion are computed.  *)
(***************************************************************************)
EXTENDS Naturals, Sequences, FiniteSets, TLC

VARIABLES
    versionsFile,   \* the file /etc/scw-k8s-versions.json
    releases,       \* releases.yaml of the repository: pool version -> components
    declared,       \* the node metadata the metadata endpoint serves
    ctxDone,        \* the context cancelled by SIGINT/SIGTERM
    eng,            \* per thread: the frame of processComponents and its callees
    prev,           \* the last processComponents call that returned
    main,           \* the main goroutine: its position and flags
    node,           \* the node object held by the cluster
    cache,          \* the informer: its state and its copy of the node object
    queue,          \* the rate limited work queue of the controller
    worker,         \* the worker goroutine: its position and the sync handler's frame
    extLeft,        \* changes the outside actor may still make to the node object
    probe           \* a single call of a store, version or resolver function: its
                    \* arguments and what it returned

engineVars == <<versionsFile, releases, declared, ctxDone, eng, prev>>
ctrlVars == <<node, cache, queue, worker, extLeft>>
vars == <<versionsFile, releases, declared, ctxDone, eng, prev, main, node, cache,
          queue, worker, extLeft, probe>>

-----------------------------------------------------------------------------
(* Bounds *)

\* number of components of a release entry
NComp == 2
\* number of resource groups of an install section
MaxGroups == 2
\* number of changes the outside actor makes to the node object
MaxExternal == 2
\* the failure count at which the model stops telling retry delays apart
MaxBackoff == 1
\* length of the version strings the version functions are called with
MaxLen == 3

-----------------------------------------------------------------------------
(* Versions *)

Tilde == "~"

\* the literal passed as version by uninstallComponents
Uninstalled == <<"u", "n", "i", "n", "s", "t", "a", "l", "l", "e", "d">>

\* the default version put before any version that has a tilde
ExpandOnAnyTilde(version, defaultVersion) ==
    IF version = <<>> THEN defaultVersion
    ELSE IF \E i \in 1..Len(version) : version[i] = Tilde
         THEN defaultVersion \o version
    ELSE version

expandVersion(version, defaultVersion) ==
    IF version = <<>> THEN defaultVersion
    ELSE IF version[1] = Tilde THEN defaultVersion \o version
    ELSE version

\* the version cut at its last tilde
TrimAtLastTilde(version) ==
    LET tildes == {i \in 1..Len(version) : version[i] = Tilde}
        last == IF tildes = {} THEN Len(version) + 1
                ELSE CHOOSE i \in tildes : \A j \in tildes : j <= i
    IN SubSeq(version, 1, last - 1)

\* strings.Split(version, "~")[0]
trimVersion(version) ==
    LET tildes == {i \in 1..Len(version) : version[i] = Tilde}
        first == IF tildes = {} THEN Len(version) + 1
                 ELSE CHOOSE i \in tildes : \A j \in tildes : i <= j
    IN SubSeq(version, 1, first - 1)

-----------------------------------------------------------------------------
(* Version store *)

NoVersions == [c \in {} |-> <<>>]

\* json.Marshal of the map: the members of one JSON object
Marshal(versions) == {<<c, versions[c]>> : c \in DOMAIN versions}

\* json.Unmarshal of the members of a JSON object into the map
Unmarshal(content) ==
    [c \in {p[1] : p \in content} |-> (CHOOSE p \in content : p[1] = c)[2]]

\* the file: whether it exists, whether its bytes are a JSON object of strings,
\* and the members of that object
MissingFile == [exists |-> FALSE, valid |-> TRUE, content |-> {}]
MalformedFile == [exists |-> TRUE, valid |-> FALSE, content |-> {}]

\* a file that does not parse read as an empty store
ReadVersionsLenient(file) ==
    IF file.exists /\ file.valid
    THEN [err |-> FALSE, versions |-> Unmarshal(file.content)]
    ELSE [err |-> FALSE, versions |-> NoVersions]

\* the stat / read / unmarshal prologue shared by the three accessors
ReadVersions(file) ==
    IF file.exists
    THEN IF file.valid THEN [err |-> FALSE, versions |-> Unmarshal(file.content)]
         ELSE [err |-> TRUE, versions |-> NoVersions]
    ELSE [err |-> FALSE, versions |-> NoVersions]

GetComponentVersion(file, component) ==
    LET r == ReadVersions(file)
    IN IF r.err THEN [err |-> TRUE, version |-> <<>>]
       ELSE IF component \in DOMAIN r.versions
            THEN [err |-> FALSE, version |-> r.versions[component]]
            ELSE [err |-> FALSE, version |-> <<>>]

\* what os.WriteFile can end in: the file written, the open refused (the file
\* is left as it was), the write failed after the file was truncated
WriteOutcomes == {"written", "refused", "truncated"}

\* the file rewritten with the one component
SetOnlyComponent(file, component, version, write) ==
    IF file.exists /\ ~file.valid THEN [err |-> TRUE, file |-> file]
    ELSE IF write = "written"
         THEN [err |-> FALSE,
               file |-> [exists |-> TRUE, valid |-> TRUE,
                         content |-> {<<component, version>>}]]
    ELSE IF write = "refused" THEN [err |-> TRUE, file |-> file]
    ELSE [err |-> TRUE, file |-> [exists |-> TRUE, valid |-> FALSE, content |-> {}]]

SetComponentVersion(file, component, version, write) ==
    LET r == ReadVersions(file)
        versions == [c \in DOMAIN r.versions \cup {component} |->
                        IF c = component THEN version ELSE r.versions[c]]
    IN IF r.err THEN [err |-> TRUE, file |-> file]
       ELSE IF write = "written"
            THEN [err |-> FALSE,
                  file |-> [exists |-> TRUE, valid |-> TRUE,
                            content |-> Marshal(versions)]]
       ELSE IF write = "refused" THEN [err |-> TRUE, file |-> file]
       ELSE [err |-> TRUE, file |-> MalformedFile]

ListComponentsVersions(file) == ReadVersions(file)

-----------------------------------------------------------------------------
(* Repository contents *)

ComponentNames == <<"cni", "kubelet", "runc">>
Names == {ComponentNames[k] : k \in 1..NComp}

\* tags of a component in releases.yaml
TagsOf(name) == IF name = "kubelet" THEN <<"gpu", "kosmos">> ELSE <<>>

\* versions a releases.yaml entry gives a component
TargetVersions == {<<>>, <<Tilde, "4">>, <<"1">>, <<"3">>}

PoolVersions == {<<"1">>, <<"2">>}
UnknownPool == <<"9">>

\* the field of the path templates that stands for the version
VersionField == "{{.Version}}"

\* the field of the path templates that stands for the architecture
ArchField == "{{.Arch}}"

\* runtime.GOARCH of the build
GOARCH == "amd64"

\* one resource group of a section of the block of metadata.yaml keyed by the
\* base version block; a path is the sequence of its parts
Group(block, section, g) ==
    [Files |-> IF section = "install"
               THEN IF g = 1
                    THEN <<[State |-> "directory", Src |-> <<>>,
                            Dst |-> <<"/opt/", VersionField>>]>>
                    ELSE <<[State |-> "file", Src |-> <<"bin-">> \o block,
                            Dst |-> <<"/opt/", VersionField, "/bin">>],
                           [State |-> "template", Src |-> <<"conf-", ArchField>>,
                            Dst |-> <<"/opt/", VersionField, "/", ArchField, ".conf">>]>>
               ELSE <<[State |-> "absent", Src |-> <<>>,
                       Dst |-> <<"/opt/", VersionField, "/bin">>]>>,
     Services |-> IF section = "install" /\ g = 1 THEN <<>>
                  ELSE <<[Name |-> "unit", Enabled |-> section = "install",
                          State |-> IF section = "install" THEN "started"
                                    ELSE "stopped"]>>,
     Scripts |-> IF section = "uninstall"
                 THEN <<[Cmd |-> <<"cleanup-">> \o block]>> ELSE <<>>]

\* metadata.yaml of every component: one block per base version
ComponentSections(block) ==
    [Install |-> [g \in 1..MaxGroups |-> Group(block, "install", g)],
     Uninstall |-> <<Group(block, "uninstall", 1)>>]

RecipeVersions == {<<"1">>, <<"2">>}

componentMetada(name, version) ==
    LET v == trimVersion(version)
    IN IF v \in RecipeVersions
       THEN [err |-> FALSE, sections |-> ComponentSections(v)]
       ELSE [err |-> TRUE, sections |-> [Install |-> <<>>, Uninstall |-> <<>>]]

-----------------------------------------------------------------------------
(* Release resolver *)

Contains(s, x) == \E k \in 1..Len(s) : s[k] = x

RECURSIVE AppendEveryMatch(_, _, _)
\* the inner loop going on after a tag matched
AppendEveryMatch(acc, component, tags) ==
    IF tags = <<>> THEN acc
    ELSE IF \E k \in 1..Len(component.Tags) : component.Tags[k] = Head(tags)
         THEN AppendEveryMatch(Append(acc, component), component, Tail(tags))
    ELSE AppendEveryMatch(acc, component, Tail(tags))

RECURSIVE AppendMatch(_, _, _)
\* the inner loop over the installer tags, with its break
AppendMatch(acc, component, tags) ==
    IF tags = <<>> THEN acc
    ELSE IF Contains(component.Tags, Head(tags)) THEN Append(acc, component)
    ELSE AppendMatch(acc, component, Tail(tags))

RECURSIVE FilterComponents(_, _, _)
FilterComponents(acc, list, tags) ==
    IF list = <<>> THEN acc
    ELSE FilterComponents(AppendMatch(acc, Head(list), tags), Tail(list), tags)

\* a pool version without entry resolved to no component
ReleaseMissingIsEmpty(rel, meta) ==
    IF meta.PoolVersion \notin DOMAIN rel
    THEN [err |-> FALSE, components |-> <<>>]
    ELSE IF Len(meta.InstallerTags) = 0
         THEN [err |-> FALSE, components |-> rel[meta.PoolVersion]]
         ELSE [err |-> FALSE,
               components |-> FilterComponents(<<>>, rel[meta.PoolVersion],
                                               meta.InstallerTags)]

releaseComponents(rel, meta) ==
    IF meta.PoolVersion \notin DOMAIN rel
    THEN [err |-> TRUE, components |-> <<>>]
    ELSE IF Len(meta.InstallerTags) = 0
         THEN [err |-> FALSE, components |-> rel[meta.PoolVersion]]
         ELSE [err |-> FALSE,
               components |-> FilterComponents(<<>>, rel[meta.PoolVersion],
                                               meta.InstallerTags)]

-----------------------------------------------------------------------------
(* Lifecycle engine: processComponents and its callees *)

Threads == {"main", "worker"}

TagFilters == {<<>>, <<"gpu", "kosmos">>}

\* the fields of NodeMetadata the engine reads
Metas == [PoolVersion : PoolVersions \cup {UnknownPool}, InstallerTags : TagFilters]

NoMeta == [PoolVersion |-> <<>>, InstallerTags |-> <<>>]

IdleEngine ==
    [pc |-> "idle", meta |-> NoMeta, components |-> <<>>, pass |-> "none",
     i |-> 0, name |-> "", version |-> <<>>, resources |-> <<>>, g |-> 0,
     err |-> "nil", repoOpen |-> FALSE, log |-> <<>>, store0 |-> MissingFile,
     rerun |-> FALSE, paths |-> <<>>]

Event(pass, kind, name, arg) ==
    [pass |-> pass, kind |-> kind, name |-> name, arg |-> arg]

\* the copy of the component list left in manifest order
NotReversed(s) == s

\* slices.Reverse on the copy of the component list
Reverse(s) == [k \in 1..Len(s) |-> s[Len(s) + 1 - k]]

\* the passes ranging over the whole manifest entry of the pool version
PassOverManifest(e, pass) ==
    IF pass = "uninstall" THEN Reverse(releases[e.meta.PoolVersion])
    ELSE releases[e.meta.PoolVersion]

\* the order in which a pass ranges over the resolved components
PassOrder(e, pass) ==
    IF pass = "uninstall" THEN Reverse(e.components) ELSE e.components

\* an error that is logged and skipped: the loop goes on with the next component
AbortSkipsComponent(e, label) ==
    LET f == [e EXCEPT !.err = label,
                       !.log = Append(e.log, Event(e.pass, "abort", e.name, 0))]
    IN IF e.pc \in {"uninstall", "install", "apply"}
       THEN [f EXCEPT !.pc = e.pass, !.i = e.i + 1]
       ELSE [f EXCEPT !.pc = "done"]

\* return of an error from any depth of processComponents
Abort(e, label) ==
    [e EXCEPT !.pc = "done", !.err = label,
              !.log = Append(e.log, Event(e.pass, "abort", e.name, 0))]

\* the frame at the head of iteration i of a pass; past the last component
\* the uninstall pass hands over to the install pass, and the install pass
\* to the repository cleanup
AtComponent(e, pass, i) ==
    LET f == [e EXCEPT !.name = "", !.version = <<>>, !.resources = <<>>, !.g = 0,
                       !.paths = <<>>]
    IN IF i <= Len(e.components)
       THEN [f EXCEPT !.pc = pass, !.pass = pass, !.i = i]
       ELSE IF pass = "uninstall" /\ Len(e.components) >= 1
            THEN [f EXCEPT !.pc = "install", !.pass = "install", !.i = 1]
            ELSE [f EXCEPT !.pc = "cleanup", !.pass = "install", !.i = 0]

\* processComponents up to the first loop iteration: NewRepoFS, releaseComponents
StartRun(t, meta, reachable) ==
    LET e0 == [IdleEngine EXCEPT !.meta = meta, !.pass = "resolve",
                                 !.store0 = versionsFile,
                                 !.rerun = prev.ok /\ prev.meta = meta]
        rc == releaseComponents(releases, meta)
    IN IF ~reachable THEN Abort(e0, "repository")
       ELSE IF rc.err THEN Abort([e0 EXCEPT !.repoOpen = TRUE], "release")
       ELSE AtComponent([e0 EXCEPT !.repoOpen = TRUE, !.components = rc.components],
                        "uninstall", 1)

\* the skip test of the uninstall loop
UninstallSkip(installed, expected) == installed = <<>> \/ installed = expected

\* the installed version compared with the base of the expected one
InstallSkipOnBase(installed, expected) == installed = trimVersion(expected)

\* the skip test of the install loop
InstallSkip(installed, expected) == installed = expected

\* the installed version given back as the version to store
UninstallKeepsVersion(installed) == installed

\* the version argument uninstallComponents gives processComponentMetada
UninstallVersionArg(installed) == Uninstalled

\* the loops going on whatever the context
CancelIgnored(done) == FALSE

\* the select on ctx.Done() at the head of an iteration of either loop
Cancelled(done) == done

\* the recipe block of the version the manifest asks for
UninstallRecipeOfTarget(installed, expected) == expected

\* the version uninstallComponents looks the recipe block up for
UninstallRecipeVersion(installed, expected) == installed

\* one iteration of the loop of uninstallComponents, up to the call of
\* processComponentMetada
UninstallComponent(t) ==
    LET e == eng[t]
        component == PassOrder(e, "uninstall")[e.i]
        got == GetComponentVersion(versionsFile, component.Name)
        expected == expandVersion(component.Version, e.meta.PoolVersion)
        cm == componentMetada(component.Name,
                              UninstallRecipeVersion(got.version, expected))
        at == [e EXCEPT !.name = component.Name]
    IN /\ e.pc = "uninstall"
       /\ eng' = [eng EXCEPT ![t] =
            IF Cancelled(ctxDone) THEN Abort(e, "context cancelled")
            ELSE IF got.err THEN Abort(at, "get version")
            ELSE IF UninstallSkip(got.version, expected)
                 THEN AtComponent(e, "uninstall", e.i + 1)
            ELSE IF cm.err THEN Abort(at, "component metadata")
            ELSE [at EXCEPT !.pc = "apply",
                            !.version = UninstallVersionArg(got.version),
                            !.resources = cm.sections.Uninstall, !.g = 1,
                            !.log = Append(e.log, Event("uninstall", "begin",
                                                        component.Name, 0))]]
       /\ UNCHANGED <<probe, versionsFile, releases, declared, ctxDone, prev, main, ctrlVars>>

\* the version of the manifest given as the version to store
InstallStoresRequested(requested, expected) == requested

\* the version argument installComponents gives processComponentMetada
InstallVersionArg(requested, expected) == expected

\* one iteration of the loop of installComponents, up to the call of
\* processComponentMetada
InstallComponent(t) ==
    LET e == eng[t]
        component == PassOrder(e, "install")[e.i]
        got == GetComponentVersion(versionsFile, component.Name)
        expected == expandVersion(component.Version, e.meta.PoolVersion)
        cm == componentMetada(component.Name, expected)
        at == [e EXCEPT !.name = component.Name]
    IN /\ e.pc = "install"
       /\ eng' = [eng EXCEPT ![t] =
            IF Cancelled(ctxDone) THEN Abort(e, "context cancelled")
            ELSE IF got.err THEN Abort(at, "get version")
            ELSE IF InstallSkip(got.version, expected)
                 THEN AtComponent(e, "install", e.i + 1)
            ELSE IF cm.err THEN Abort(at, "component metadata")
            ELSE [at EXCEPT !.pc = "apply",
                            !.version = InstallVersionArg(component.Version, expected),
                            !.resources = cm.sections.Install, !.g = 1,
                            !.log = Append(e.log, Event("install", "begin",
                                                        component.Name, 0))]]
       /\ UNCHANGED <<probe, versionsFile, releases, declared, ctxDone, prev, main, ctrlVars>>

RECURSIVE templateComponentPath(_, _)
\* the path rendered with the version field set to trimVersion(version) and
\* the architecture field set to runtime.GOARCH
templateComponentPath(path, version) ==
    IF path = <<>> THEN <<>>
    ELSE (IF Head(path) = VersionField THEN trimVersion(version)
          ELSE IF Head(path) = ArchField THEN <<GOARCH>>
          ELSE <<Head(path)>>)
             \o templateComponentPath(Tail(path), version)

\* the paths the file operations of processComponentFiles are called with:
\* mkdir is given the destination as the recipe writes it
processComponentFiles(version, files) ==
    [k \in 1..Len(files) |->
        [State |-> files[k].State,
         src |-> templateComponentPath(files[k].Src, version),
         dst |-> IF files[k].State = "directory" THEN files[k].Dst
                 ELSE templateComponentPath(files[k].Dst, version)]]

\* what applying one resource group can end in: "ok", or the stage that
\* failed (the daemon-reload of the services stage runs even with no service)
Outcomes(group) ==
    {"ok", "services"}
        \cup (IF Len(group.Files) > 0 THEN {"files"} ELSE {})
        \cup (IF Len(group.Scripts) > 0 THEN {"scripts"} ELSE {})

\* the version stored from inside the loop, after the first resource group
GroupsDoneAfterFirst(e) == e.g > 1

\* the loop of processComponentMetada is over
GroupsDone(e) == e.g > Len(e.resources)

\* one iteration of the loop of processComponentMetada
ApplyGroup(t) ==
    LET e == eng[t]
        f == [e EXCEPT !.paths = processComponentFiles(e.version, e.resources[e.g].Files)]
    IN /\ e.pc = "apply"
       /\ ~GroupsDone(e)
       /\ \E outcome \in Outcomes(e.resources[e.g]) :
            eng' = [eng EXCEPT ![t] =
                IF outcome = "ok"
                THEN [f EXCEPT !.g = e.g + 1,
                               !.log = Append(e.log, Event(e.pass, "group", e.name, e.g))]
                ELSE Abort(f, outcome)]
       /\ UNCHANGED <<probe, versionsFile, releases, declared, ctxDone, prev, main, ctrlVars>>

\* the tail of processComponentMetada: SetComponentVersion(name, version)
StoreVersion(t) ==
    LET e == eng[t]
    IN /\ e.pc = "apply"
       /\ GroupsDone(e)
       /\ \E write \in WriteOutcomes :
            LET set == SetComponentVersion(versionsFile, e.name, e.version, write)
            IN /\ versionsFile' = set.file
               /\ eng' = [eng EXCEPT ![t] =
                    IF set.err THEN Abort(e, "store version")
                    ELSE AtComponent([e EXCEPT !.log = Append(e.log,
                                          Event(e.pass, "set", e.name, 0))],
                                     e.pass, e.i + 1)]
       /\ UNCHANGED <<probe, releases, declared, ctxDone, prev, main, ctrlVars>>

\* repoFS.Cleanup() and the return of processComponents
Cleanup(t) ==
    LET e == eng[t]
    IN /\ e.pc = "cleanup"
       /\ \E ok \in BOOLEAN :
            eng' = [eng EXCEPT ![t] =
                IF ok THEN [e EXCEPT !.pc = "done", !.repoOpen = FALSE]
                ELSE Abort(e, "cleanup")]
       /\ UNCHANGED <<probe, versionsFile, releases, declared, ctxDone, prev, main, ctrlVars>>

EngineStep(t) ==
    \/ UninstallComponent(t)
    \/ InstallComponent(t)
    \/ ApplyGroup(t)
    \/ StoreVersion(t)
    \/ Cleanup(t)

\* the signal goroutine of main: sigCancel()
Cancel ==
    /\ ~ctxDone
    /\ ctxDone' = TRUE
    /\ UNCHANGED <<probe, versionsFile, releases, declared, eng, prev, main, ctrlVars>>

-----------------------------------------------------------------------------
(* Node object and its annotations.  An annotation key is <<prefix, rest>>. *)

ComponentPrefix == "k8s.scaleway.com/component-"
UpgradeAnnotation == <<"k8s.scaleway.com/", "agent">>
UpgradeValue == "upgrade"

\* fmt.Sprintf("k8s.scaleway.com/component-%s", component)
ComponentAnnotation(component) == <<ComponentPrefix, component>>

\* strings.HasPrefix(annotation, "k8s.scaleway.com/component-")
HasComponentPrefix(annotation) == annotation[1] = ComponentPrefix

\* the variable Version of main.go
AgentVersion == <<"d", "e", "v">>

Remove(ann, key) == [k \in DOMAIN ann \ {key} |-> ann[k]]

Put(ann, key, value) ==
    [k \in DOMAIN ann \cup {key} |-> IF k = key THEN value ELSE ann[k]]

\* the annotations of the node when the agent first starts
InitialAnnotations ==
    [k \in {<<"node.alpha/", "ttl">>, ComponentAnnotation("old")} |->
        IF k = ComponentAnnotation("old") THEN <<"1">> ELSE "0"]

\* the annotation tested for presence only
UpgradeRequestedByPresence(ann) == UpgradeAnnotation \in DOMAIN ann

\* the test of upgradeNode on the annotation
UpgradeRequested(ann) ==
    UpgradeAnnotation \in DOMAIN ann /\ ann[UpgradeAnnotation] = UpgradeValue

\* the versions set on the copy of the node, the other annotations left alone
VersionsAnnotationsKeepStale(ann, listed) ==
    LET versions == [c \in DOMAIN listed \cup {"agent"} |->
                        IF c = "agent" THEN AgentVersion ELSE listed[c]]
    IN [k \in DOMAIN ann \cup {ComponentAnnotation(c) : c \in DOMAIN versions} |->
          IF \E c \in DOMAIN versions : k = ComponentAnnotation(c)
          THEN versions[k[2]] ELSE ann[k]]

\* the copy of the node built from the versions alone
VersionsAnnotationsOnly(ann, listed) ==
    LET versions == Put(listed, "agent", AgentVersion)
    IN [k \in {ComponentAnnotation(c) : c \in DOMAIN versions} |-> versions[k[2]]]

\* the annotations syncVersionsAnnotations computes on its copy of the node
VersionsAnnotations(ann, listed) ==
    LET versions == Put(listed, "agent", AgentVersion)
        set == [k \in DOMAIN ann \cup {ComponentAnnotation(c) : c \in DOMAIN versions} |->
                  IF \E c \in DOMAIN versions : k = ComponentAnnotation(c)
                  THEN versions[k[2]] ELSE ann[k]]
        kept == {k \in DOMAIN set :
                    \/ ~HasComponentPrefix(k)
                    \/ \E c \in DOMAIN versions : k = ComponentAnnotation(c)}
    IN [k \in kept |-> set[k]]

\* the annotations compared by their keys only
SameAnnotationKeys(current, computed) == DOMAIN current = DOMAIN computed

\* the test that skips the update of the node
SameAnnotations(current, computed) == current = computed

\* the API server's answer to Nodes().Update(copy): the copy must be of the
\* node as the cluster holds it now
UpdateAccepted(apiOk) == apiOk /\ node.exists /\ cache.obj = node

-----------------------------------------------------------------------------
(* Work queue *)

\* the queue of the one key of the node: the number of times the key is in the
\* queue proper, whether it is in the dirty set, in the processing set, in the
\* delay heap of the rate limiter; merged tells that an Add since the last Get
\* found the key already dirty
NewQueue ==
    [queued |-> 0, dirty |-> FALSE, processing |-> FALSE, waiting |-> FALSE,
     shuttingDown |-> FALSE, failures |-> 0, merged |-> FALSE]

\* an Add that puts the key in the queue whether or not it is dirty
QueueAddAlways(q) ==
    IF q.shuttingDown THEN q
    ELSE IF q.processing THEN [q EXCEPT !.dirty = TRUE]
    ELSE [q EXCEPT !.dirty = TRUE, !.queued = q.queued + 1]

QueueAdd(q) ==
    IF q.shuttingDown THEN q
    ELSE IF q.dirty THEN [q EXCEPT !.merged = TRUE]
    ELSE IF q.processing THEN [q EXCEPT !.dirty = TRUE]
    ELSE [q EXCEPT !.dirty = TRUE, !.queued = q.queued + 1]

QueueGet(q) ==
    [q EXCEPT !.queued = q.queued - 1, !.dirty = FALSE, !.processing = TRUE,
              !.merged = FALSE]

\* a Done that forgets the Add made while the key was being processed
QueueDoneDropsDirty(q) == [q EXCEPT !.processing = FALSE, !.dirty = FALSE]

QueueDone(q) ==
    IF q.dirty THEN [q EXCEPT !.processing = FALSE, !.queued = q.queued + 1]
    ELSE [q EXCEPT !.processing = FALSE]

QueueForget(q) == [q EXCEPT !.failures = 0]

\* the failure counted and the key not given to the rate limiter's delay heap
QueueDropOnError(q) ==
    [q EXCEPT !.failures = IF q.failures < MaxBackoff THEN q.failures + 1
                           ELSE q.failures]

QueueAddRateLimited(q) ==
    LET f == IF q.failures < MaxBackoff THEN q.failures + 1 ELSE q.failures
    IN IF q.shuttingDown THEN [q EXCEPT !.failures = f]
       ELSE [q EXCEPT !.failures = f, !.waiting = TRUE]

-----------------------------------------------------------------------------
(* Controller: the worker goroutine and the sync handler *)

\* the frame of one syncHandler call, with what it has done so far
IdleWorker ==
    [pc |-> "none", err |-> "nil", seen |-> "unread", trigger |-> FALSE,
     started |-> FALSE,
     runOk |-> FALSE, cleared |-> FALSE, synced |-> FALSE, updates |-> 0,
     current |-> NoVersions, computed |-> NoVersions, fetched |-> <<>>,
     events |-> <<>>, store0 |-> MissingFile]

\* return of syncHandler to processNextWorkItem
Return(w, err) == [w EXCEPT !.pc = "finish", !.err = err]

\* the event not recorded
EmitDropped(w, event) == w

\* recorder.Eventf on the node object
Emit(w, event) == [w EXCEPT !.events = Append(w.events, event)]

\* the error of upgradeNode logged, and the handler going on to the annotations
IgnoreUpgradeError(w, err) == [w EXCEPT !.pc = "annotations"]

\* syncHandler when upgradeNode returns an error
FailUpgrade(w, err) == Return(w, err)

\* the value of the agent annotation on a node object
AnnotationValue(obj) ==
    IF ~obj.exists THEN "no node"
    ELSE IF UpgradeAnnotation \in DOMAIN obj.ann THEN obj.ann[UpgradeAnnotation]
    ELSE "absent"

\* wait.UntilWithContext: the check of the context before runWorker is called
WorkerEnter ==
    /\ worker.pc = "enter"
    /\ worker' = [worker EXCEPT !.pc = IF ctxDone THEN "stopped" ELSE "get"]
    /\ UNCHANGED <<probe, engineVars, main, node, cache, queue, extLeft>>

\* processNextWorkItem: queue.Get() returns an item
WorkerGet ==
    /\ worker.pc = "get"
    /\ queue.queued > 0
    /\ queue' = QueueGet(queue)
    /\ worker' = [IdleWorker EXCEPT !.pc = "upgrade", !.store0 = versionsFile]
    /\ UNCHANGED <<probe, engineVars, main, node, cache, extLeft>>

\* processNextWorkItem: queue.Get() reports the shutdown, runWorker returns and
\* wait.UntilWithContext ends on the cancelled context
WorkerStop ==
    /\ worker.pc = "get"
    /\ queue.queued = 0
    /\ queue.shuttingDown
    /\ worker' = [worker EXCEPT !.pc = "stopped"]
    /\ UNCHANGED <<probe, engineVars, main, node, cache, queue, extLeft>>

\* upgradeNode up to the start event
UpgradeNode ==
    /\ worker.pc = "upgrade"
    /\ worker' =
         LET w == [worker EXCEPT !.seen = AnnotationValue(cache.obj)]
         IN IF ~cache.obj.exists THEN FailUpgrade(w, "get node")
            ELSE IF ~UpgradeRequested(cache.obj.ann)
                 THEN [w EXCEPT !.pc = "annotations"]
            ELSE Emit([w EXCEPT !.pc = "credentials", !.trigger = TRUE],
                      "Node upgrading")
    /\ UNCHANGED <<probe, engineVars, main, node, cache, queue, extLeft>>

\* upgradeNode: getNodeUserData()
GetCredentials ==
    /\ worker.pc = "credentials"
    /\ \E ok \in BOOLEAN :
         worker' =
           IF ok THEN [worker EXCEPT !.pc = "metadata",
                                     !.fetched = Append(worker.fetched, "credentials")]
           ELSE FailUpgrade(Emit(worker, "Failed to get credentials"), "credentials")
    /\ UNCHANGED <<probe, engineVars, main, node, cache, queue, extLeft>>

\* upgradeNode: getNodeMetadata() fails
GetMetadataFails ==
    /\ worker.pc = "metadata"
    /\ worker' = FailUpgrade(Emit(worker, "Failed to get node metadata"), "metadata")
    /\ UNCHANGED <<probe, engineVars, main, node, cache, queue, extLeft>>

\* the metadata of the last run that succeeded given to the engine again
MetadataOfLastRun(fetched, last) == last

\* the metadata upgradeNode gives processComponents: what getNodeMetadata
\* has just returned
UpgradeMetadata(fetched, last) == fetched

\* upgradeNode: getNodeMetadata() and the call of processComponents
GetMetadataAndRun ==
    /\ worker.pc = "metadata"
    /\ \E reachable \in BOOLEAN :
         eng' = [eng EXCEPT !["worker"] =
                    StartRun("worker", UpgradeMetadata(declared, prev.meta), reachable)]
    /\ worker' = [worker EXCEPT !.pc = "running", !.started = TRUE,
                                !.fetched = Append(worker.fetched, "metadata")]
    /\ UNCHANGED <<probe, versionsFile, releases, declared, ctxDone, prev, main, node, cache,
                   queue, extLeft>>

\* the error of processComponents not tested
RunErrorIgnored(e) == TRUE

\* the test of upgradeNode on the error of processComponents
RunSucceeded(e) == e.err = "nil"

\* what the next call of processComponents is compared with
Returned(e) ==
    IF e.err = "nil" THEN [ok |-> TRUE, meta |-> e.meta]
    ELSE [ok |-> FALSE, meta |-> NoMeta]

\* upgradeNode: processComponents has returned
RunReturned ==
    LET e == eng["worker"]
    IN /\ worker.pc = "running"
       /\ e.pc = "done"
       /\ prev' = Returned(e)
       /\ eng' = [eng EXCEPT !["worker"] = IdleEngine]
       /\ worker' =
            LET w == [worker EXCEPT !.runOk = (e.err = "nil")]
            IN IF RunSucceeded(e) THEN [w EXCEPT !.pc = "clear"]
               ELSE FailUpgrade(Emit(w, "Failed to install components"), "install")
       /\ UNCHANGED <<probe, versionsFile, releases, declared, ctxDone, main, node, cache,
                      queue, extLeft>>

\* upgradeNode: removal of the annotation from a fresh copy of the node
ClearTrigger ==
    /\ worker.pc = "clear"
    /\ \E apiOk \in BOOLEAN :
         IF ~cache.obj.exists
         THEN /\ worker' = FailUpgrade(worker, "get node")
              /\ node' = node
         ELSE IF UpdateAccepted(apiOk)
         THEN /\ node' = [node EXCEPT !.ann = Remove(cache.obj.ann, UpgradeAnnotation)]
              /\ worker' = Emit([worker EXCEPT !.pc = "annotations", !.cleared = TRUE],
                                "Node upgraded")
         ELSE /\ node' = node
              /\ worker' = FailUpgrade(Emit(worker, "Failed to remove annotation"),
                                       "remove annotation")
    /\ UNCHANGED <<probe, engineVars, main, cache, queue, extLeft>>

\* syncVersionsAnnotations and the return of syncHandler
SyncVersionsAnnotations ==
    LET listed == ListComponentsVersions(versionsFile)
        computed == VersionsAnnotations(cache.obj.ann, listed.versions)
        w == [worker EXCEPT !.synced = TRUE]
        v == [w EXCEPT !.current = cache.obj.ann, !.computed = computed]
    IN /\ worker.pc = "annotations"
       /\ \E apiOk \in BOOLEAN :
            IF listed.err
            THEN worker' = Return(w, "list versions") /\ node' = node
            ELSE IF ~cache.obj.exists
            THEN worker' = Return(w, "get node") /\ node' = node
            ELSE IF SameAnnotations(cache.obj.ann, computed)
            THEN worker' = Return(v, "nil") /\ node' = node
            ELSE IF UpdateAccepted(apiOk)
            THEN /\ worker' = Return([v EXCEPT !.updates = 1], "nil")
                 /\ node' = [node EXCEPT !.ann = computed]
            ELSE /\ worker' = Return([v EXCEPT !.updates = 1], "update node")
                 /\ node' = node
       /\ UNCHANGED <<probe, engineVars, main, cache, queue, extLeft>>

\* the tail of processNextWorkItem: Forget or AddRateLimited, then the deferred Done
FinishItem ==
    /\ worker.pc = "finish"
    /\ queue' = QueueDone(IF worker.err = "nil" THEN QueueForget(queue)
                          ELSE QueueAddRateLimited(queue))
    /\ worker' = [IdleWorker EXCEPT !.pc = "get"]
    /\ UNCHANGED <<probe, engineVars, main, node, cache, extLeft>>

\* the queue's delay loop adds the item whose retry delay has elapsed
DelayedAdd ==
    /\ queue.waiting
    /\ queue' = QueueAdd([queue EXCEPT !.waiting = FALSE])
    /\ UNCHANGED <<probe, engineVars, main, node, cache, worker, extLeft>>

\* the steps of one call of syncHandler
HandlerStep ==
    \/ UpgradeNode
    \/ GetCredentials
    \/ GetMetadataFails
    \/ GetMetadataAndRun
    \/ EngineStep("worker")
    \/ RunReturned
    \/ ClearTrigger
    \/ SyncVersionsAnnotations

WorkerStep ==
    \/ WorkerEnter
    \/ WorkerGet
    \/ WorkerStop
    \/ UpgradeNode
    \/ GetCredentials
    \/ GetMetadataFails
    \/ GetMetadataAndRun
    \/ EngineStep("worker")
    \/ RunReturned
    \/ ClearTrigger
    \/ SyncVersionsAnnotations
    \/ FinishItem
    \/ DelayedAdd

-----------------------------------------------------------------------------
(* Informer and the outside actor *)

\* the process of the agent has not ended: main has neither returned nor
\* called os.Exit
ProcessRunning == main.pc \notin {"exited", "returned"}

\* the informer lists or watches the node: the lister's copy is refreshed and
\* the Add/Update/Delete handler enqueues the node's key
Deliver ==
    /\ ProcessRunning
    /\ cache.started
    /\ ~cache.synced \/ cache.obj # node
    /\ cache' = [cache EXCEPT !.synced = TRUE, !.obj = node]
    /\ queue' = IF cache.obj.exists \/ node.exists THEN QueueAdd(queue) ELSE queue
    /\ UNCHANGED <<probe, engineVars, main, node, worker, extLeft>>

\* the resync period elapses: UpdateFunc is called with the unchanged node
Resync ==
    /\ ProcessRunning
    /\ cache.synced
    /\ cache.obj.exists
    /\ queue' = QueueAdd(queue)
    /\ UNCHANGED <<probe, engineVars, main, node, cache, worker, extLeft>>

\* The outside actor acts once the informer is started: the agent reads the
\* node object through the informer only, so an earlier change is seen as one
\* made at its start.
\* an outside actor sets the agent annotation of the node to a value that
\* requests nothing
SetAnnotation ==
    /\ extLeft > 0
    /\ cache.started
    /\ node.exists
    /\ node' = [node EXCEPT !.ann = Put(node.ann, UpgradeAnnotation, "pause")]
    /\ extLeft' = extLeft - 1
    /\ UNCHANGED <<probe, engineVars, main, cache, queue, worker>>

\* an outside actor declares the pool's version and requests the upgrade
RequestUpgrade ==
    /\ extLeft > 0
    /\ cache.started
    /\ node.exists
    /\ \E p \in PoolVersions \cup {UnknownPool} :
         declared' = [declared EXCEPT !.PoolVersion = p]
    /\ node' = [node EXCEPT !.ann = Put(node.ann, UpgradeAnnotation, UpgradeValue)]
    /\ extLeft' = extLeft - 1
    /\ UNCHANGED <<probe, versionsFile, releases, ctxDone, eng, prev, main, cache, queue,
                   worker>>

\* the node object is deleted from the cluster
DeleteNode ==
    /\ extLeft > 0
    /\ cache.started
    /\ node.exists
    /\ node' = [exists |-> FALSE, ann |-> NoVersions]
    /\ extLeft' = extLeft - 1
    /\ UNCHANGED <<probe, engineVars, main, cache, queue, worker>>

External == SetAnnotation \/ RequestUpgrade \/ DeleteNode

-----------------------------------------------------------------------------
(* main *)

\* the position the worker goroutine is given when main has not started it
NoController == [started |-> FALSE, synced |-> FALSE,
                 obj |-> [exists |-> FALSE, ann |-> NoVersions]]

\* main before processComponents: credentials and node metadata cannot be had
StartFails ==
    /\ main.pc = "start"
    /\ main' = [main EXCEPT !.pc = "exited"]
    /\ UNCHANGED <<probe, engineVars, ctrlVars>>

\* main: the node metadata is fetched and processComponents is called
Bootstrap ==
    /\ main.pc = "start"
    /\ \E reachable \in BOOLEAN :
         eng' = [eng EXCEPT !["main"] = StartRun("main", declared, reachable)]
    /\ main' = [main EXCEPT !.pc = "bootstrap"]
    /\ UNCHANGED <<probe, versionsFile, releases, declared, ctxDone, prev, ctrlVars>>

\* main going on without waiting for processComponents
BootstrapNotAwaited(e) == TRUE

\* the call of processComponents by main has returned
BootstrapReturned(e) == e.pc = "done"

\* the error of processComponents not tested by main
BootstrapErrorIgnored(e) == FALSE

\* the test of main on the error of processComponents
BootstrapFailed(e) == e.err # "nil"

\* the flag -kosmos not looked at
KosmosFlagIgnored(m) == FALSE

\* the test of the flag -kosmos after the bootstrap run
KosmosMode(m) == m.kosmos

\* main after processComponents: exit on error, return in Kosmos mode
AfterBootstrap ==
    LET e == eng["main"]
    IN /\ main.pc = "bootstrap"
       /\ BootstrapReturned(e)
       /\ prev' = Returned(e)
       /\ eng' = [eng EXCEPT !["main"] = IF e.pc = "done" THEN IdleEngine ELSE e]
       /\ main' = [main EXCEPT !.pc = IF BootstrapFailed(e) THEN "exited"
                                      ELSE IF KosmosMode(main) THEN "returned"
                                      ELSE "controller"]
       /\ UNCHANGED <<probe, versionsFile, releases, declared, ctxDone, ctrlVars>>

\* NewController fails and main exits
NewControllerFails ==
    /\ main.pc = "controller"
    /\ main' = [main EXCEPT !.pc = "exited"]
    /\ UNCHANGED <<probe, engineVars, ctrlVars>>

\* NewController, and Controller.Run up to the start of the informer
NewController ==
    /\ main.pc = "controller"
    /\ main' = [main EXCEPT !.pc = "waitSync"]
    /\ queue' = NewQueue
    /\ cache' = [NoController EXCEPT !.started = TRUE]
    /\ UNCHANGED <<probe, engineVars, node, worker, extLeft>>

\* Controller.Run: cache.WaitForCacheSync ends on the cancelled context
WaitSyncCancelled ==
    /\ main.pc = "waitSync"
    /\ ctxDone
    /\ main' = [main EXCEPT !.pc = "exited"]
    /\ UNCHANGED <<probe, engineVars, ctrlVars>>

\* the worker started without the wait for the informer
CacheSyncNotAwaited(c) == TRUE

\* cache.WaitForCacheSync returns true: nodesSynced reports the first list done
CacheSynced(c) == c.synced

\* Controller.Run: the cache has synced and the worker goroutine is started
StartWorker ==
    /\ main.pc = "waitSync"
    /\ CacheSynced(cache)
    /\ main' = [main EXCEPT !.pc = "blocked"]
    /\ worker' = [IdleWorker EXCEPT !.pc = "enter"]
    /\ UNCHANGED <<probe, engineVars, node, cache, queue, extLeft>>

\* Controller.Run: <-ctx.Done() and queue.ShutDown()
ShutDown ==
    /\ main.pc = "blocked"
    /\ ctxDone
    /\ queue' = [queue EXCEPT !.shuttingDown = TRUE]
    /\ main' = [main EXCEPT !.pc = "waitWorker"]
    /\ UNCHANGED <<probe, engineVars, node, cache, worker, extLeft>>

\* the return of Run without the wait for the worker goroutine
WaitGroupNotAwaited(w) == TRUE

\* wg.Wait() of Run is over: the worker goroutine has called wg.Done()
WaitGroupDone(w) == w.pc = "stopped"

\* Controller.Run: wg.Wait() and the return to main
RunReturns ==
    /\ main.pc = "waitWorker"
    /\ WaitGroupDone(worker)
    /\ main' = [main EXCEPT !.pc = "returned"]
    /\ UNCHANGED <<probe, engineVars, ctrlVars>>

\* the agent's process is started again (boot, service restart) on the same
\* node, whose declared metadata may have changed meanwhile
Restart ==
    /\ main.pc \in {"exited", "returned"}
    /\ main' = [main EXCEPT !.pc = "start"]
    /\ declared' \in Metas
    /\ ctxDone' = FALSE
    /\ eng' = [t \in Threads |-> IdleEngine]
    /\ worker' = IdleWorker
    /\ queue' = NewQueue
    /\ cache' = NoController
    /\ UNCHANGED <<probe, versionsFile, releases, prev, node, extLeft>>

MainStep ==
    \/ StartFails
    \/ Bootstrap
    \/ EngineStep("main")
    \/ AfterBootstrap
    \/ NewControllerFails
    \/ NewController
    \/ WaitSyncCancelled
    \/ StartWorker
    \/ ShutDown
    \/ RunReturns

-----------------------------------------------------------------------------
(* Specifications *)

\* no function call made
NoProbe == [fn |-> "none", args |-> <<>>, out |-> <<>>]

\* releases.yaml: every pool version lists the NComp components in one order;
\* the entry of pool version 1 leaves every version empty
Manifest(choice) ==
    [p \in PoolVersions |->
        [k \in 1..NComp |->
            [Name |-> ComponentNames[k],
             Version |-> IF p = <<"1">> THEN <<>> ELSE choice[k],
             Tags |-> TagsOf(ComponentNames[k])]]]

Manifests == {Manifest(choice) : choice \in [1..NComp -> TargetVersions]}

\* the manifest of the controller runs: the first component follows the pool
\* version, the others pin a sub-version of it
PinnedManifest == Manifest([k \in 1..NComp |-> IF k = 1 THEN <<>> ELSE <<Tilde, "4">>])

\* nothing of the agent is running
InitIdle ==
    /\ ctxDone = FALSE
    /\ eng = [t \in Threads |-> IdleEngine]
    /\ prev = [ok |-> FALSE, meta |-> NoMeta]
    /\ node = [exists |-> TRUE, ann |-> InitialAnnotations]
    /\ cache = NoController
    /\ queue = NewQueue
    /\ worker = IdleWorker
    /\ extLeft = MaxExternal

InitCommon ==
    /\ versionsFile \in {MissingFile, MalformedFile}
    /\ declared \in Metas
    /\ InitIdle
    /\ probe = NoProbe

\* the agent in Kapsule or Kosmos mode, from the start of its process, on a
\* node whose pool declares installer tags
Init ==
    /\ InitCommon
    /\ releases = PinnedManifest
    /\ declared.InstallerTags = <<"gpu", "kosmos">>
    /\ main \in [pc : {"start"}, kosmos : BOOLEAN]

Next ==
    \/ MainStep
    \/ WorkerStep
    \/ Deliver
    \/ Resync
    \/ External
    \/ Cancel

Spec == Init /\ [][Next]_vars

\* the agent in Kapsule mode on a node of pool version 1 that the outside actor
\* changes once, with a scheduler that lets the goroutine of Run and the worker
\* goroutine run, handlers whose calls return, and retry delays that elapse
InitLive ==
    /\ ctxDone = FALSE
    /\ eng = [t \in Threads |-> IdleEngine]
    /\ prev = [ok |-> FALSE, meta |-> NoMeta]
    /\ node = [exists |-> TRUE, ann |-> InitialAnnotations]
    /\ cache = NoController
    /\ queue = NewQueue
    /\ worker = IdleWorker
    /\ extLeft = 1
    /\ versionsFile = MissingFile
    /\ releases = PinnedManifest
    /\ declared = [PoolVersion |-> <<"1">>, InstallerTags |-> <<"gpu", "kosmos">>]
    /\ main = [pc |-> "start", kosmos |-> FALSE]
    /\ probe = NoProbe

SpecLive ==
    /\ InitLive
    /\ [][Next]_vars
    /\ WF_vars(FinishItem)
    /\ WF_vars(DelayedAdd)
    /\ WF_vars(WorkerGet)
    /\ WF_vars(WorkerEnter)
    /\ WF_vars(HandlerStep)
    /\ WF_vars(WorkerStop)
    /\ WF_vars(ShutDown)
    /\ WF_vars(RunReturns)

\* the agent in Kosmos mode, started again and again on the same node
InitKosmos ==
    /\ InitCommon
    /\ releases \in Manifests
    /\ main = [pc |-> "start", kosmos |-> TRUE]

NextKosmos ==
    \/ StartFails
    \/ Bootstrap
    \/ EngineStep("main")
    \/ AfterBootstrap
    \/ Cancel
    \/ Restart

SpecKosmos == InitKosmos /\ [][NextKosmos]_vars

\* the agent's process is started again on the same node with the metadata
\* endpoint serving what it served before
RestartSame ==
    /\ main.pc \in {"exited", "returned"}
    /\ main' = [main EXCEPT !.pc = "start"]
    /\ ctxDone' = FALSE
    /\ eng' = [t \in Threads |-> IdleEngine]
    /\ UNCHANGED <<probe, versionsFile, releases, declared, prev, ctrlVars>>

\* the store a successful run at pool version 1 leaves: every component of the
\* entry at version 1
InstalledAtPool1 ==
    [exists |-> TRUE, valid |-> TRUE,
     content |-> Marshal([c \in Names |-> <<"1">>])]

\* the agent in Kosmos mode started again and again on a node of pool version 2
\* whose components were installed at pool version 1; the manifest and the
\* node metadata stay the same from run to run
InitRecovery ==
    /\ InitIdle
    /\ versionsFile = InstalledAtPool1
    /\ releases \in Manifests
    /\ declared = [PoolVersion |-> <<"2">>, InstallerTags |-> <<>>]
    /\ main = [pc |-> "start", kosmos |-> TRUE]
    /\ probe = NoProbe

NextRecovery ==
    \/ StartFails
    \/ Bootstrap
    \/ EngineStep("main")
    \/ AfterBootstrap
    \/ Cancel
    \/ RestartSame

SpecRecovery == InitRecovery /\ [][NextRecovery]_vars

\* releases.yaml whose entry of pool version 2 no longer lists the last
\* component of the entry of pool version 1
DroppedManifest ==
    [p \in PoolVersions |->
        IF p = <<"2">> THEN SubSeq(PinnedManifest[p], 1, NComp - 1)
        ELSE PinnedManifest[p]]

\* the agent in Kapsule mode on a node whose components were all installed at
\* pool version 1, with installer tags or a manifest entry that leave some of
\* them out of the resolved list; the outside actor changes the node once
InitFrame ==
    /\ ctxDone = FALSE
    /\ eng = [t \in Threads |-> IdleEngine]
    /\ prev = [ok |-> FALSE, meta |-> NoMeta]
    /\ node = [exists |-> TRUE, ann |-> InitialAnnotations]
    /\ cache = NoController
    /\ queue = NewQueue
    /\ worker = IdleWorker
    /\ extLeft = 1
    /\ versionsFile = InstalledAtPool1
    /\ releases \in {PinnedManifest, DroppedManifest}
    /\ declared \in [PoolVersion : {<<"1">>}, InstallerTags : TagFilters]
    /\ main = [pc |-> "start", kosmos |-> FALSE]
    /\ probe = NoProbe

SpecFrame == InitFrame /\ [][Next]_vars

\* the node object with the upgrade trigger set before the agent starts
TriggeredAnnotations == Put(InitialAnnotations, UpgradeAnnotation, UpgradeValue)

\* the agent started in Kapsule or in Kosmos mode on a node of pool version 1
\* that carries the upgrade trigger or not; the outside actor changes the node
\* at most once more
InitModes ==
    /\ ctxDone = FALSE
    /\ eng = [t \in Threads |-> IdleEngine]
    /\ prev = [ok |-> FALSE, meta |-> NoMeta]
    /\ node \in [exists : {TRUE}, ann : {InitialAnnotations, TriggeredAnnotations}]
    /\ cache = NoController
    /\ queue = NewQueue
    /\ worker = IdleWorker
    /\ extLeft = 1
    /\ versionsFile = MissingFile
    /\ releases = PinnedManifest
    /\ declared = [PoolVersion |-> <<"1">>, InstallerTags |-> <<"gpu", "kosmos">>]
    /\ main \in [pc : {"start"}, kosmos : BOOLEAN]
    /\ probe = NoProbe

SpecModes == InitModes /\ [][Next]_vars

-----------------------------------------------------------------------------
(* The version store called on its own *)

\* the file holding the empty JSON object
EmptyObject == [exists |-> TRUE, valid |-> TRUE, content |-> {}]

StoreKeys == Names

StoreValues == {<<>>, <<"1">>, <<"2", Tilde, "4">>, Uninstalled}

\* a call of the store: the function, its arguments, what it returned, the file
\* before the call; shadow maps every component set with success to the last
\* version set, replaced holds the components set with success more than once
StoreCall(fn, args, out, shadow, replaced) ==
    [fn |-> fn, args |-> args, out |-> out, before |-> versionsFile,
     shadow |-> shadow, replaced |-> replaced]

StoreSet ==
    \E c \in StoreKeys, v \in StoreValues, write \in WriteOutcomes :
        LET set == SetComponentVersion(versionsFile, c, v, write)
        IN /\ versionsFile' = set.file
           /\ probe' = StoreCall("set", <<c, v, write>>, [err |-> set.err],
                                 IF set.err THEN probe.shadow
                                 ELSE Put(probe.shadow, c, v),
                                 IF ~set.err /\ c \in DOMAIN probe.shadow
                                 THEN probe.replaced \cup {c}
                                 ELSE probe.replaced)
           /\ UNCHANGED <<releases, declared, ctxDone, eng, prev, main, ctrlVars>>

StoreGet ==
    \E c \in StoreKeys :
        /\ probe' = StoreCall("get", <<c>>, GetComponentVersion(versionsFile, c),
                              probe.shadow, probe.replaced)
        /\ UNCHANGED <<engineVars, main, ctrlVars>>

StoreList ==
    /\ probe' = StoreCall("list", <<>>, ListComponentsVersions(versionsFile),
                          probe.shadow, probe.replaced)
    /\ UNCHANGED <<engineVars, main, ctrlVars>>

InitStore ==
    /\ InitIdle
    /\ versionsFile \in {MissingFile, MalformedFile, EmptyObject}
    /\ releases = PinnedManifest
    /\ declared = NoMeta
    /\ main = [pc |-> "start", kosmos |-> FALSE]
    /\ probe = [fn |-> "none", args |-> <<>>, out |-> <<>>, before |-> versionsFile,
                shadow |-> NoVersions, replaced |-> {}]

NextStore == StoreSet \/ StoreGet \/ StoreList

SpecStore == InitStore /\ [][NextStore]_vars

-----------------------------------------------------------------------------
(* The version functions called on their own *)

Alphabet == {"1", "2", Tilde}

\* the versions of the cases of TestExpandVersion and TestTrimVersion
TestVersions ==
    {<<"1", ".", "2", ".", "3">>, <<"1", ".", "2", ".", "3", Tilde, "4">>,
     <<Tilde, "4">>, <<>>, <<"2", ".", "0", ".", "0">>}

Versions == UNION {[1..n -> Alphabet] : n \in 0..MaxLen} \cup TestVersions

CallExpand ==
    /\ probe.fn = "none"
    /\ probe' = [probe EXCEPT !.fn = "expand",
                               !.out = expandVersion(probe.args[1], probe.args[2])]
    /\ UNCHANGED <<engineVars, main, ctrlVars>>

CallTrim ==
    /\ probe.fn = "none"
    /\ probe' = [probe EXCEPT !.fn = "trim", !.out = trimVersion(probe.args[1])]
    /\ UNCHANGED <<engineVars, main, ctrlVars>>

\* the recipe block of a component looked up for a version
CallRecipe ==
    /\ probe.fn = "none"
    /\ probe' = [probe EXCEPT !.fn = "recipe",
                               !.out = componentMetada("cni", probe.args[1])]
    /\ UNCHANGED <<engineVars, main, ctrlVars>>

InitVersions ==
    /\ InitIdle
    /\ versionsFile = MissingFile
    /\ releases = PinnedManifest
    /\ declared = NoMeta
    /\ main = [pc |-> "start", kosmos |-> FALSE]
    /\ probe \in [fn : {"none"}, args : Versions \X Versions, out : {<<>>}]

NextVersions == CallExpand \/ CallTrim \/ CallRecipe

SpecVersions == InitVersions /\ [][NextVersions]_vars

-----------------------------------------------------------------------------
(* The release resolver called on its own *)

\* tags a releases.yaml entry gives a component
TagLists == {<<>>, <<"gpu">>, <<"kosmos">>, <<"gpu", "kosmos">>}

\* installer tags of the node metadata
FilterLists == TagLists \cup {<<"kosmos", "gpu">>, <<"gpu", "gpu">>, <<"arm">>}

\* the entries of up to NComp components, named in the order of ComponentNames
ReleaseEntries ==
    UNION {[1..n -> [Name : Names, Version : {<<>>}, Tags : TagLists]] : n \in 0..NComp}

CallRelease ==
    /\ probe.fn = "none"
    /\ probe' = [probe EXCEPT !.fn = "release",
                               !.out = releaseComponents(releases, declared)]
    /\ UNCHANGED <<engineVars, main, ctrlVars>>

InitResolver ==
    /\ InitIdle
    /\ versionsFile = MissingFile
    /\ \E entry \in ReleaseEntries :
          /\ \A k \in 1..Len(entry) : entry[k].Name = ComponentNames[k]
          /\ releases = [p \in {<<"1">>} |-> entry]
    /\ declared \in [PoolVersion : {<<"1">>, UnknownPool}, InstallerTags : FilterLists]
    /\ main = [pc |-> "start", kosmos |-> FALSE]
    /\ probe = NoProbe

NextResolver == CallRelease

SpecResolver == InitResolver /\ [][NextResolver]_vars

-----------------------------------------------------------------------------
(* The repository opened on its own *)

\* most URIs in the comma-separated RepoURI
MaxRepos == 3

\* the forms a URI can have; "ftp" stands for every form NewRepoFS has no case for
Schemes == {"http", "https", "zip", "ftp"}

\* one URI of the list: its form and whether what it names can be reached
\* (the server answers, the archive can be opened)
RepoURIs == [scheme : Schemes, up : BOOLEAN]

\* strings.Split(uri, ","): at least one element, whatever the string
RepoLists == UNION {[1..n -> RepoURIs] : n \in 1..MaxRepos}

NoRepo == [err |-> TRUE, kind |-> "none", index |-> 0]

\* the loop of NewRepoFS from element k on: a network location is returned
\* without any request being made, an archive is returned when it opens and
\* passed over when it does not, any other form is passed over
RECURSIVE NewRepoFSFrom(_, _)
NewRepoFSFrom(repos, k) ==
    IF k > Len(repos) THEN NoRepo
    ELSE IF repos[k].scheme \in {"http", "https"}
         THEN [err |-> FALSE, kind |-> "http", index |-> k]
         ELSE IF repos[k].scheme = "zip" /\ repos[k].up
              THEN [err |-> FALSE, kind |-> "zip", index |-> k]
              ELSE NewRepoFSFrom(repos, k + 1)

NewRepoFS(repos) == NewRepoFSFrom(repos, 1)

\* ReadFile on the repository NewRepoFS returned: the request of httpFS fails
\* when the server cannot be reached, the opened archive is read locally
ReadFile(repos, fsys) ==
    IF fsys.kind = "http" THEN [err |-> ~repos[fsys.index].up]
    ELSE [err |-> FALSE]

CallNewRepoFS ==
    /\ probe.fn = "none"
    /\ probe' = [probe EXCEPT !.fn = "open", !.out = NewRepoFS(probe.args[1])]
    /\ UNCHANGED <<engineVars, main, ctrlVars>>

\* the first read of the run: releases.yaml in releaseComponents
CallReadFile ==
    /\ probe.fn = "open"
    /\ ~probe.out.err
    /\ probe' = [probe EXCEPT !.fn = "read",
                               !.args = <<probe.args[1], probe.out>>,
                               !.out = ReadFile(probe.args[1], probe.out)]
    /\ UNCHANGED <<engineVars, main, ctrlVars>>

InitRepo ==
    /\ InitIdle
    /\ versionsFile = MissingFile
    /\ releases = PinnedManifest
    /\ declared = NoMeta
    /\ main = [pc |-> "start", kosmos |-> FALSE]
    /\ probe \in [fn : {"none"}, args : {<<repos>> : repos \in RepoLists}, out : {<<>>}]

NextRepo == CallNewRepoFS \/ CallReadFile

SpecRepo == InitRepo /\ [][NextRepo]_vars

-----------------------------------------------------------------------------
(* The service operations of one resource group on their own *)

\* most entries in the services list of a resource group
MaxServices == 2

\* the states an entry can declare; "restarted" stands for every state the
\* switch of processComponentServices has no case for
ServiceStates == {"started", "stopped", "restarted"}

\* exit codes of systemctl: success, the code taken for an unknown unit by the
\* disable step, the code taken for an unknown unit by the stop step, another
ExitCodes == {0, 1, 5, 3}

ServiceLists ==
    UNION {[1..n -> [Enabled : BOOLEAN, State : ServiceStates]] : n \in 0..MaxServices}

\* one systemctl command run for entry k (0 for the reload) and its exit code
Systemctl(cmd, k, exit) == [cmd |-> cmd, k |-> k, exit |-> exit]

\* the exit code of systemctl disable the code ignores
DisableIgnored(exit) == exit = 1

\* the exit code of systemctl stop the code ignores
StopIgnored(exit) == exit = 5

\* return of processComponentServices
ServicesReturn(f, err) == [f EXCEPT !.pc = "returned", !.err = err]

\* the head of the loop for the entry after entry k
NextService(f, services) ==
    IF f.k + 1 > Len(services) THEN ServicesReturn(f, "nil")
    ELSE [f EXCEPT !.pc = "enable", !.k = f.k + 1]

\* systemctl daemon-reload, before the loop
DaemonReload ==
    /\ probe.fn = "none"
    /\ \E exit \in ExitCodes :
         LET f == [pc |-> "reload", k |-> 0, err |-> "nil",
                   log |-> <<Systemctl("daemon-reload", 0, exit)>>]
         IN probe' = [probe EXCEPT !.fn = "services",
                         !.out = IF exit # 0 THEN ServicesReturn(f, "daemon-reload")
                                 ELSE NextService(f, probe.args[1])]
    /\ UNCHANGED <<engineVars, main, ctrlVars>>

\* systemctl enable or disable of the entry
EnableDisable ==
    /\ probe.fn = "services"
    /\ probe.out.pc = "enable"
    /\ \E exit \in ExitCodes :
         LET services == probe.args[1]
             service == services[probe.out.k]
             cmd == IF service.Enabled THEN "enable" ELSE "disable"
             f == [probe.out EXCEPT
                       !.log = Append(@, Systemctl(cmd, probe.out.k, exit))]
         IN probe' = [probe EXCEPT !.out =
                IF exit = 0 THEN [f EXCEPT !.pc = "state"]
                ELSE IF ~service.Enabled /\ DisableIgnored(exit)
                     THEN NextService(f, services)
                     ELSE ServicesReturn(f, cmd)]
    /\ UNCHANGED <<engineVars, main, ctrlVars>>

\* the switch on the declared state of the entry: systemctl start or stop
StartStop ==
    /\ probe.fn = "services"
    /\ probe.out.pc = "state"
    /\ LET services == probe.args[1]
           service == services[probe.out.k]
       IN IF service.State \notin {"started", "stopped"}
          THEN probe' = [probe EXCEPT !.out = ServicesReturn(@, "unknown service state")]
          ELSE \E exit \in ExitCodes :
                 LET cmd == IF service.State = "started" THEN "start" ELSE "stop"
                     f == [probe.out EXCEPT
                               !.log = Append(@, Systemctl(cmd, probe.out.k, exit))]
                 IN probe' = [probe EXCEPT !.out =
                        IF exit = 0 \/ (cmd = "stop" /\ StopIgnored(exit))
                        THEN NextService(f, services)
                        ELSE ServicesReturn(f, cmd)]
    /\ UNCHANGED <<engineVars, main, ctrlVars>>

InitServices ==
    /\ InitIdle
    /\ versionsFile = MissingFile
    /\ releases = PinnedManifest
    /\ declared = NoMeta
    /\ main = [pc |-> "start", kosmos |-> FALSE]
    /\ probe \in [fn : {"none"}, args : {<<services>> : services \in ServiceLists},
                   out : {<<>>}]

NextServices == DaemonReload \/ EnableDisable \/ StartStop

SpecServices == InitServices /\ [][NextServices]_vars

-----------------------------------------------------------------------------
(* Properties of a run of the lifecycle engine *)

\* the version the store file f records for a component ("" when none)
Stored(f, name) == GetComponentVersion(f, name).version

Expected(e, component) == expandVersion(component.Version, e.meta.PoolVersion)

\* the component of the resolved list of run e with the given name
ComponentOf(e, name) ==
    e.components[CHOOSE k \in 1..Len(e.components) : e.components[k].Name = name]

\* positions of the log of run e with an entry of the kind for the component
Entries(e, pass, kind, name) ==
    {k \in 1..Len(e.log) :
        e.log[k].pass = pass /\ e.log[k].kind = kind /\ e.log[k].name = name}

\* the component steps of run e, in the order they were started
Visits(e) ==
    LET begun == SelectSeq(e.log, LAMBDA ev : ev.kind = "begin")
    IN [k \in 1..Len(begun) |-> <<begun[k].pass, begun[k].name>>]

\* every resolved component was, when run e started, installed at a version
\* other than its expanded target
AllChanging(e) ==
    \A k \in 1..Len(e.components) :
        /\ Stored(e.store0, e.components[k].Name) # <<>>
        /\ Stored(e.store0, e.components[k].Name) # Expected(e, e.components[k])

\* uninstall steps in reverse manifest order, then install steps in manifest order
FullOrder(e) ==
    LET n == Len(e.components)
    IN [k \in 1..(2 * n) |->
          IF k <= n THEN <<"uninstall", e.components[n + 1 - k].Name>>
          ELSE <<"install", e.components[k - n].Name>>]

\* the steps of FullOrder that run e has to make, given the store it started
\* from: the uninstall step of a component installed at another version than
\* its target, the install step of a component not installed at its target
DueOrder(e) ==
    SelectSeq(FullOrder(e),
              LAMBDA v :
                  LET installed == Stored(e.store0, v[2])
                      expected == Expected(e, ComponentOf(e, v[2]))
                  IN IF v[1] = "uninstall"
                     THEN installed # <<>> /\ installed # expected
                     ELSE installed # expected)

IsPrefix(s, full) == Len(s) <= Len(full) /\ s = SubSeq(full, 1, Len(s))

Succeeded(e) == e.pc = "done" /\ e.err = "nil"

\* C1: in no run does anything of the uninstall pass come after something of
\* the install pass; the component steps a run has started are a prefix of the
\* steps it has to make, taken in the order: uninstall steps in reverse manifest
\* order, then install steps in manifest order; a run that succeeds has made
\* all of them.
C1_PassOrder ==
    \A t \in Threads :
        LET e == eng[t]
        IN /\ \A j, k \in 1..Len(e.log) :
                j < k => ~(e.log[j].pass = "install" /\ e.log[k].pass = "uninstall")
           /\ e.pass \in {"uninstall", "install"} /\ ~ReadVersions(e.store0).err =>
                /\ IsPrefix(Visits(e), DueOrder(e))
                /\ Succeeded(e) => Visits(e) = DueOrder(e)

C1_Witness ==
    LET e == eng["main"]
    IN AllChanging(e) /\ Succeeded(e) /\ Len(Visits(e)) = 2 * NComp

\* C2: a run that follows a successful run with the same manifest, pool version
\* and tags applies no resource group, starts no component step, and leaves the
\* version store as it found it.
C2_Idempotent ==
    \A t \in Threads :
        LET e == eng[t]
        IN e.rerun =>
             /\ \A k \in 1..Len(e.log) : e.log[k].kind = "abort"
             /\ versionsFile = e.store0

C2_Witness ==
    LET e == eng["main"]
    IN e.rerun /\ Succeeded(e) /\ Len(e.components) = NComp

\* the kind of pass of the last write of the component's version in run e
LastSet(e, name) ==
    LET sets == {k \in 1..Len(e.log) : e.log[k].kind = "set" /\ e.log[k].name = name}
    IN IF sets = {} THEN "none"
       ELSE e.log[CHOOSE k \in sets : \A j \in sets : j <= k].pass

\* C3 as stated: a component's recorded version is changed only by a successful
\* install step of the component, never by its uninstall step.
C3_UninstallKeepsStore ==
    \A name \in Names :
        /\ eng["main"].pc # "idle"
        /\ ~ReadVersions(versionsFile).err
        /\ Entries(eng["main"], "install", "set", name) = {}
        => Stored(versionsFile, name) = Stored(eng["main"].store0, name)

\* What the uninstall step does to the store instead of C3: it changes the
\* version store only when all its uninstall groups succeeded, and then sets the
\* component's entry to the literal "uninstalled"; the expanded target version
\* is written only by a successful install step.  So a component whose
\* uninstall step succeeded and whose install step failed or was never reached
\* is recorded as "uninstalled".  (A write of the store file that fails half
\* way leaves no readable store.)
C3_UninstallMarksStore ==
    LET e == eng["main"]
    IN ~ReadVersions(versionsFile).err => \A name \in Names :
         /\ e.pc # "idle" /\ LastSet(e, name) = "none"
               => Stored(versionsFile, name) = Stored(e.store0, name)
         /\ LastSet(e, name) = "uninstall"
               => /\ Stored(versionsFile, name) = Uninstalled
                  /\ Entries(e, "uninstall", "group", name) # {}
         /\ LastSet(e, name) = "install"
               => Stored(versionsFile, name) = Expected(e, ComponentOf(e, name))

C3_Witness ==
    LET e == eng["main"]
    IN \E name \in Names :
         /\ e.pc = "done"
         /\ e.err \in {"files", "services", "scripts"}
         /\ e.log[Len(e.log)].pass = "install"
         /\ e.log[Len(e.log)].name = name
         /\ LastSet(e, name) = "uninstall"
         /\ Stored(versionsFile, name) = Uninstalled
         /\ Stored(e.store0, name) # Uninstalled

\* C4: in the install pass the version of a component is written at most once,
\* its write comes right after the component's install groups were applied one
\* by one in order, all with success, and it records the expanded target
\* version; a component whose install step failed has no such write.
C4_WriteAfterAllGroups ==
    LET e == eng["main"]
        n == Len(ComponentSections(<<"1">>).Install)
    IN \A name \in Names :
         LET sets == Entries(e, "install", "set", name)
         IN /\ Cardinality(sets) <= 1
            /\ \A k \in sets :
                 /\ k > n + 1
                 /\ e.log[k - n - 1] = Event("install", "begin", name, 0)
                 /\ \A g \in 1..n : e.log[k - n - 1 + g] = Event("install", "group", name, g)
                 /\ ~ReadVersions(versionsFile).err =>
                        Stored(versionsFile, name) = Expected(e, ComponentOf(e, name))
            /\ Entries(e, "install", "abort", name) # {} =>
                 /\ sets = {}
                 /\ Stored(versionsFile, name) # Expected(e, ComponentOf(e, name))

C4_Witness ==
    LET e == eng["main"]
    IN /\ Succeeded(e)
       /\ \A name \in Names : Entries(e, "install", "set", name) # {}

\* C5: a failure ends the run at once: the failure is the last thing the run
\* does, the run has returned, and it returned an error.
C5_AbortImmediately ==
    \A t \in Threads :
        LET e == eng[t]
        IN /\ \A k \in 1..Len(e.log) :
                e.log[k].kind = "abort" => k = Len(e.log) /\ e.pc = "done"
           /\ e.err # "nil" =>
                /\ e.pc = "done"
                /\ e.log[Len(e.log)].kind = "abort"
           /\ e.pc = "done" /\ e.err = "nil" =>
                \A k \in 1..Len(e.log) : e.log[k].kind # "abort"

C5_Witness ==
    LET e == eng["main"]
    IN /\ e.pc = "done"
       /\ e.err \in {"files", "services", "scripts"}
       /\ e.log[Len(e.log)].pass = "uninstall"
       /\ e.i < Len(e.components)

-----------------------------------------------------------------------------
(* Properties of the controller *)

\* thread t is inside processComponents
Active(t) == eng[t].pc \notin {"idle", "done"}

\* the worker is inside syncHandler
InHandler ==
    worker.pc \in {"upgrade", "credentials", "metadata", "running", "clear",
                   "annotations"}

\* C6: at most one run of the lifecycle engine is active at any time: while the
\* controller exists (informer started, worker started or handler running) the
\* bootstrap run of main is over, and the one worker is in a handler only for
\* the one item the queue has handed out.
C6_OneRunAtATime ==
    /\ Cardinality({t \in Threads : Active(t)}) <= 1
    /\ cache.started \/ worker.pc # "none" =>
          /\ ~Active("main")
          /\ main.pc \in {"waitSync", "blocked", "waitWorker", "returned", "exited"}
    /\ Active("worker") => worker.pc = "running"
    /\ InHandler \/ worker.pc = "finish" => queue.processing

C6_Witness ==
    /\ eng["worker"].pc = "apply"
    /\ main.pc = "waitWorker"
    /\ queue.dirty

\* C7 as stated: a handler that found the upgrade request on the node made an
\* engine run, and removed the request if and only if that run succeeded.
C7_ClearedIffRunSucceeded ==
    worker.pc = "finish" /\ worker.seen = UpgradeValue =>
        /\ worker.started
        /\ worker.cleared <=> worker.runOk

\* C7 amended: a handler that found the upgrade request on the node object of
\* the informer cache fetches the credentials, then the metadata, and starts an
\* engine run only when both were had; it removes the request only after that
\* run succeeded, never after a failed or aborted run or a failed fetch; when
\* the request is not removed the handler returns an error.
C7_ClearedOnlyAfterSuccess ==
    /\ worker.started =>
          worker.seen = UpgradeValue /\ worker.fetched = <<"credentials", "metadata">>
    /\ worker.cleared => worker.started /\ worker.runOk
    /\ worker.runOk => worker.started
    /\ worker.pc \in {"clear"} => worker.runOk
    /\ worker.pc = "finish" /\ worker.seen = UpgradeValue =>
          /\ worker.started <=> worker.fetched = <<"credentials", "metadata">>
          /\ ~worker.cleared => worker.err # "nil"
          /\ worker.cleared <=> worker.events[Len(worker.events)] = "Node upgraded"

C7_Witness ==
    /\ worker.pc = "finish"
    /\ worker.seen = UpgradeValue
    /\ worker.runOk
    /\ ~worker.cleared

\* C8: a handler that found the agent annotation absent, or with a value other
\* than the sentinel, starts no engine run, fetches neither credentials nor
\* metadata, records no event and leaves the version store alone; it goes
\* straight to the reconciliation of the version annotations.
C8_NoRequestNoRun ==
    worker.seen \in {"absent", "pause"} =>
        /\ worker.pc \in {"annotations", "finish"}
        /\ ~worker.started /\ ~worker.trigger
        /\ worker.fetched = <<>>
        /\ worker.events = <<>>
        /\ ~Active("worker") /\ eng["worker"].pc = "idle"
        /\ versionsFile = worker.store0
        /\ worker.pc = "finish" => worker.synced

C8_Witness ==
    /\ worker.pc = "finish"
    /\ worker.seen = "pause"
    /\ worker.synced

\* C9 as stated: every handler call runs the reconciliation of the version
\* annotations, whatever the outcome of the upgrade step.
C9_AlwaysReconciles == worker.pc = "finish" => worker.synced

\* C9 amended: the reconciliation of the version annotations runs if and only if
\* the upgrade step returned no error, that is when the node carries no upgrade
\* request or when the requested upgrade succeeded and the request was removed;
\* a handler whose upgrade step failed returns the error without reconciling.
C9_ReconcilesUnlessUpgradeFailed ==
    /\ worker.synced => worker.seen \in {"absent", "pause"} \/ worker.cleared
    /\ worker.pc = "finish" =>
          /\ worker.synced <=> (worker.seen \in {"absent", "pause"} \/ worker.cleared)
          /\ ~worker.synced => worker.err # "nil"

C9_Witness ==
    /\ worker.pc = "finish"
    /\ worker.seen = UpgradeValue
    /\ worker.started
    /\ ~worker.runOk
    /\ ~worker.synced

\* C10: the reconciliation makes no update call when the annotations it computed
\* equal, keys and values, those of the node it read, and exactly one otherwise.
C10_UpdateOnlyOnChange ==
    worker.synced /\ worker.pc = "finish"
        /\ worker.err \notin {"list versions", "get node"} =>
            /\ worker.computed = worker.current => worker.updates = 0
            /\ worker.computed # worker.current => worker.updates = 1

C10_Witness ==
    /\ worker.pc = "finish"
    /\ worker.synced
    /\ worker.err = "nil"
    /\ worker.updates = 0
    /\ ComponentAnnotation("kubelet") \in DOMAIN worker.current
    /\ worker.computed = worker.current

\* the annotations of a node object whose key has the component prefix
ComponentPart(ann) == [k \in {j \in DOMAIN ann : HasComponentPrefix(j)} |-> ann[k]]

\* one annotation per component of the version store, and the agent's own
ReportOf(file) ==
    LET stored == ListComponentsVersions(file).versions
    IN [k \in {ComponentAnnotation(c) : c \in DOMAIN stored \cup {"agent"}} |->
          IF k[2] = "agent" THEN AgentVersion ELSE stored[k[2]]]

\* C11: when the reconciliation of the version annotations has returned without
\* error, the component-prefixed annotations it computed, and those of the node
\* object, are exactly one per component of the version store with the stored
\* version, plus the agent's with the running agent's version; a component key
\* set before whose component is not in the store is gone.
C11_ReportMatchesStore ==
    worker.pc = "finish" /\ worker.synced /\ worker.err = "nil" =>
        /\ ComponentPart(worker.computed) = ReportOf(versionsFile)
        /\ node.exists => ComponentPart(node.ann) = ReportOf(versionsFile)

C11_Witness ==
    /\ worker.pc = "finish" /\ worker.synced /\ worker.err = "nil"
    /\ worker.updates = 1
    /\ ComponentAnnotation("old") \in DOMAIN worker.current
    /\ node.exists
    /\ ComponentAnnotation("old") \notin DOMAIN node.ann
    /\ ComponentAnnotation("kubelet") \in DOMAIN node.ann
    /\ node.ann[ComponentAnnotation("agent")] = AgentVersion

-----------------------------------------------------------------------------
(* Properties of the version store *)

\* the value of key c in map m, the empty version when m has no such key
ValueOf(m, c) == IF c \in DOMAIN m THEN m[c] ELSE <<>>

\* C12: Get returns the version of the most recent successful Set of the
\* component; a successful Set leaves every other component of the store with
\* the version it had; List returns exactly the components set so far, each
\* with its latest version.
C12_StoreRoundTrip ==
    /\ probe.fn = "get" /\ ~probe.out.err =>
          probe.out.version = ValueOf(probe.shadow, probe.args[1])
    /\ probe.fn = "list" /\ ~probe.out.err => probe.out.versions = probe.shadow
    /\ probe.fn = "set" /\ ~probe.out.err =>
          LET old == ReadVersions(probe.before).versions
              new == ReadVersions(versionsFile).versions
          IN /\ new[probe.args[1]] = probe.args[2]
             /\ DOMAIN new = DOMAIN old \cup {probe.args[1]}
             /\ \A c \in DOMAIN old \ {probe.args[1]} : new[c] = old[c]
             /\ new = probe.shadow

C12_Witness ==
    /\ probe.fn = "get" /\ ~probe.out.err
    /\ probe.args[1] \in probe.replaced
    /\ probe.out.version = <<"2", Tilde, "4">>
    /\ DOMAIN probe.shadow = StoreKeys

\* C13: on a missing file Get returns the empty version without error, List
\* the empty mapping, and a Set that is written creates a store with the set
\* key alone; a key that is absent yields the empty version and no error; on a
\* malformed file Get, Set and List return an error and Set leaves the file
\* as it was.
C13_StoreErrors ==
    /\ ~probe.before.exists =>
          /\ probe.fn = "get" => probe.out = [err |-> FALSE, version |-> <<>>]
          /\ probe.fn = "list" => probe.out = [err |-> FALSE, versions |-> NoVersions]
          /\ probe.fn = "set" /\ probe.args[3] = "written" =>
                /\ ~probe.out.err
                /\ versionsFile.exists
                /\ ReadVersions(versionsFile) =
                      [err |-> FALSE,
                       versions |-> [c \in {probe.args[1]} |-> probe.args[2]]]
    /\ probe.fn = "get" /\ probe.before.valid
          /\ probe.args[1] \notin {p[1] : p \in probe.before.content} =>
          probe.out = [err |-> FALSE, version |-> <<>>]
    /\ probe.before.exists /\ ~probe.before.valid =>
          /\ probe.fn \in {"get", "set", "list"} => probe.out.err
          /\ versionsFile = probe.before

C13_Witness ==
    /\ probe.fn = "set"
    /\ probe.args[3] = "written"
    /\ probe.before.exists /\ ~probe.before.valid
    /\ probe.out.err
    /\ versionsFile = probe.before

-----------------------------------------------------------------------------
(* Properties of the version functions *)

\* C14: expand gives the default when the requested version is empty, the
\* default followed by the requested version when that starts with a tilde, and
\* the requested version as it is otherwise, a tilde after a base included; the
\* cases of TestExpandVersion give what the test expects.
C14_Expand ==
    probe.fn = "expand" =>
        LET requested == probe.args[1]
            default == probe.args[2]
        IN /\ requested = <<>> => probe.out = default
           /\ requested # <<>> /\ requested[1] = Tilde =>
                 probe.out = default \o requested
           /\ requested # <<>> /\ requested[1] # Tilde => probe.out = requested
           /\ probe.args = <<(<<Tilde, "4">>), (<<"2", ".", "0", ".", "0">>)>> =>
                 probe.out = <<"2", ".", "0", ".", "0", Tilde, "4">>
           /\ probe.args = <<(<<"1", ".", "2", ".", "3", Tilde, "4">>),
                             (<<"2", ".", "0", ".", "0">>)>> =>
                 probe.out = <<"1", ".", "2", ".", "3", Tilde, "4">>

C14_Witness ==
    /\ probe.fn = "expand"
    /\ probe.args = <<(<<"1", ".", "2", ".", "3", Tilde, "4">>),
                      (<<"2", ".", "0", ".", "0">>)>>
    /\ probe.out = probe.args[1]

RECURSIVE BeforeTilde(_)
\* the characters of a version that come before its first tilde
BeforeTilde(v) ==
    IF v = <<>> \/ Head(v) = Tilde THEN <<>>
    ELSE <<Head(v)>> \o BeforeTilde(Tail(v))

\* C15: trim gives the part of the version before its first tilde, the whole
\* version when it has none; the recipe block looked up for a version is the
\* one looked up for every version with the same part before the first tilde.
C15_Trim ==
    /\ probe.fn = "trim" =>
          /\ probe.out = BeforeTilde(probe.args[1])
          /\ (\A i \in 1..Len(probe.args[1]) : probe.args[1][i] # Tilde) =>
                probe.out = probe.args[1]
          /\ probe.args[1] = <<"1", ".", "2", ".", "3", Tilde, "4">> =>
                probe.out = <<"1", ".", "2", ".", "3">>
    /\ probe.fn = "recipe" =>
          \A w \in Versions :
              BeforeTilde(w) = BeforeTilde(probe.args[1]) =>
                  componentMetada("cni", w) = probe.out

C15_Witness ==
    /\ probe.fn = "trim"
    /\ probe.args[1] = <<"2", Tilde, Tilde>>
    /\ probe.out = <<"2">>

-----------------------------------------------------------------------------
(* Properties of the release resolver *)

\* the component has a tag that is in the filter
SharesTag(component, filter) ==
    \E i \in 1..Len(component.Tags), j \in 1..Len(filter) :
        component.Tags[i] = filter[j]

\* C16: for a pool version the manifest has an entry for, the resolver returns
\* the whole entry in its order when the tag filter is empty, and otherwise the
\* components of the entry that share a tag with the filter, each once, in the
\* order of the entry.
C16_Filter ==
    probe.fn = "release" /\ declared.PoolVersion \in DOMAIN releases =>
        LET entry == releases[declared.PoolVersion]
            filter == declared.InstallerTags
        IN /\ ~probe.out.err
           /\ filter = <<>> => probe.out.components = entry
           /\ filter # <<>> =>
                 probe.out.components =
                     SelectSeq(entry, LAMBDA c : SharesTag(c, filter))

C16_Witness ==
    /\ probe.fn = "release"
    /\ Len(releases[<<"1">>]) = NComp
    /\ releases[<<"1">>][1].Tags = <<>>
    /\ releases[<<"1">>][NComp].Tags = <<"gpu", "kosmos">>
    /\ declared = [PoolVersion |-> <<"1">>, InstallerTags |-> <<"kosmos", "gpu">>]
    /\ probe.out.components = <<releases[<<"1">>][NComp]>>

\* C17: for a pool version the manifest has no entry for, the resolver returns
\* an error and no component; the run of the engine has then returned an error
\* without starting a component step, applying a resource group or changing
\* the version store.
C17_MissingRelease ==
    \A t \in Threads :
        LET e == eng[t]
        IN e.pass # "none" /\ e.meta.PoolVersion \notin DOMAIN releases =>
             /\ releaseComponents(releases, e.meta) = [err |-> TRUE, components |-> <<>>]
             /\ e.pc = "done"
             /\ e.err \in {"repository", "release"}
             /\ e.components = <<>>
             /\ e.log = <<Event("resolve", "abort", "", 0)>>
             /\ versionsFile = e.store0

C17_Witness ==
    LET e == eng["main"]
    IN /\ e.pc = "done"
       /\ e.err = "release"
       /\ e.meta.PoolVersion = UnknownPool
       /\ DOMAIN ReadVersions(e.store0).versions = Names
       /\ versionsFile = e.store0

\* C18: when a run has returned success, the version store records every
\* component of the resolved list at its expanded target version.  For the
\* manifest entry [cni at 1, kubelet at ~4, ...] of pool version 2 and no store
\* file, the run makes the install steps in manifest order, no uninstall step,
\* and the store ends with cni at 1 and kubelet at 2~4.
C18_Converges ==
    \A t \in Threads :
        LET e == eng[t]
        IN Succeeded(e) =>
             /\ \A k \in 1..Len(e.components) :
                    Stored(versionsFile, e.components[k].Name)
                        = expandVersion(e.components[k].Version, e.meta.PoolVersion)
             /\ /\ e.store0 = MissingFile
                /\ e.meta = [PoolVersion |-> <<"2">>, InstallerTags |-> <<>>]
                /\ releases[<<"2">>][1].Version = <<"1">>
                /\ releases[<<"2">>][2].Version = <<Tilde, "4">>
                => /\ Stored(versionsFile, "cni") = <<"1">>
                   /\ Stored(versionsFile, "kubelet") = <<"2", Tilde, "4">>
                   /\ SubSeq(Visits(e), 1, 2) = << <<"install", "cni">>,
                                                    <<"install", "kubelet">> >>

C18_Witness ==
    LET e == eng["main"]
    IN /\ Succeeded(e)
       /\ e.store0 = MissingFile
       /\ e.meta = [PoolVersion |-> <<"2">>, InstallerTags |-> <<>>]
       /\ releases[<<"2">>][1].Version = <<"1">>
       /\ releases[<<"2">>][2].Version = <<Tilde, "4">>
       /\ Stored(versionsFile, "cni") = <<"1">>
       /\ Stored(versionsFile, "kubelet") = <<"2", Tilde, "4">>

-----------------------------------------------------------------------------
(* Properties of the work queue *)

\* C19: when the worker leaves a handler that returned an error it counts the
\* failure and gives the item to the rate limiter (unless the queue is shut
\* down), and the handler is eventually entered again or the queue shut down;
\* when the handler returned no error the failure count is reset and the item
\* is not given to the rate limiter; in both cases the item is no longer being
\* processed, and an item added meanwhile is in the queue.
C19_RetryProtocol ==
    /\ [][worker.pc = "finish" /\ worker'.pc # "finish" =>
            /\ ~queue'.processing
            /\ queue.dirty => queue'.queued > 0
            /\ worker.err = "nil" =>
                  queue'.failures = 0 /\ queue'.waiting = queue.waiting
            /\ worker.err # "nil" =>
                  /\ queue'.failures > 0
                  /\ queue'.waiting \/ queue.shuttingDown]_vars
    /\ (worker.pc = "finish" /\ worker.err # "nil")
          ~> (worker.pc = "upgrade" \/ queue.shuttingDown)

C19_Witness ==
    /\ worker.pc = "upgrade"
    /\ queue.failures > 0
    /\ ~queue.shuttingDown
    /\ ~queue.waiting

\* C20: the queue never holds the node's key more than once, and the key is in
\* the queue only while it is dirty and not being processed; an Add that finds
\* the key already dirty changes neither; one Get by the worker takes the key
\* with every notification received since the Get before, so that they are
\* handled by the one handler run that follows.
C20_Dedup ==
    /\ [](/\ queue.queued <= 1
          /\ queue.queued = 1 => queue.dirty /\ ~queue.processing
          /\ queue.merged => queue.dirty)
    /\ [][(queue.dirty /\ queue'.dirty =>
              (queue'.queued = queue.queued \/ queue.processing))
          /\ (worker.pc = "get" /\ worker'.pc = "upgrade" =>
                (/\ queue.queued = 1
                 /\ queue'.queued = 0
                 /\ ~queue'.dirty
                 /\ ~queue'.merged
                 /\ queue'.processing))]_vars

C20_Witness ==
    /\ queue.merged
    /\ queue.queued = 1
    /\ worker.pc = "get"
    /\ ~queue.shuttingDown

\* C29: a notification the informer delivers marks the key dirty unless the
\* queue is shut down, whether the key is idle, being processed or waiting for
\* its retry; the mark is taken off only by the worker getting the key, at the
\* start of a handler run, which happens with no handler running; and a key
\* that is dirty while it is being processed or waits for its retry is
\* eventually got, so that a handler run starts after the notification, or the
\* queue is shut down.
C29_NoLostNotification ==
    /\ [][(cache' # cache /\ cache'.synced /\ (cache.obj.exists \/ node.exists)
                /\ ~queue.shuttingDown => queue'.dirty)
          /\ (queue.dirty /\ ~queue'.dirty =>
                /\ worker.pc = "get" /\ worker'.pc = "upgrade"
                /\ ~queue.processing /\ queue'.processing)
          /\ (queue.dirty /\ queue.processing /\ ~queue'.processing =>
                queue'.dirty /\ queue'.queued = 1)]_vars
    /\ (queue.dirty /\ (queue.processing \/ queue.waiting))
          ~> (~queue.dirty \/ queue.shuttingDown)

C29_Witness ==
    /\ worker.pc = "upgrade"
    /\ queue.processing
    /\ queue.waiting
    /\ queue.failures > 0
    /\ ~queue.shuttingDown

-----------------------------------------------------------------------------
(* Properties of the start and the shutdown of the controller *)

\* C21: once Run has seen the cancellation the queue is shut down; a handler
\* that is running is left only by its own return, and the worker goroutine
\* stops only between two items; Run has returned only when the worker
\* goroutine has stopped, so never while a handler is running; and when the
\* handlers return, Run returns after the cancellation.
C21_Shutdown ==
    /\ [](/\ main.pc \in {"waitWorker", "returned"} =>
                ctxDone /\ queue.shuttingDown
          /\ main.pc = "returned" => worker.pc = "stopped" /\ ~InHandler)
    /\ [][(InHandler /\ ~InHandler' => worker'.pc = "finish")
          /\ (worker.pc # "stopped" /\ worker'.pc = "stopped" =>
                worker.pc \in {"enter", "get"})]_vars
    /\ (main.pc = "blocked" /\ ctxDone) ~> (main.pc = "returned")

C21_Witness ==
    /\ main.pc = "waitWorker"
    /\ queue.shuttingDown
    /\ worker.pc = "finish"
    /\ worker.started

\* C22: main goes on from the bootstrap run only when the run has returned,
\* and to the controller only when it returned no error (and the mode is not
\* Kosmos); a run that returned an error, a cancellation included, makes main
\* exit with status 1, and main stays exited; the informer is started only by
\* main at the controller, and the worker only with the informer started, so
\* after a failed bootstrap there is no watch and no handler call.
C22_ControllerAfterBootstrap ==
    /\ [](/\ main.pc = "controller" => prev.ok /\ ~main.kosmos
          /\ cache.started \/ worker.pc # "none" \/ Active("worker") =>
                /\ main.pc \in {"waitSync", "blocked", "waitWorker", "returned",
                                "exited"}
                /\ eng["main"].pc = "idle")
    /\ [][(main.pc = "bootstrap" /\ main'.pc # "bootstrap" =>
                /\ eng["main"].pc = "done"
                /\ eng["main"].err # "nil" =>
                      main'.pc = "exited" /\ ~cache'.started /\ worker'.pc = "none"
                /\ eng["main"].err = "nil" => main'.pc \in {"controller", "returned"})
          /\ (main.pc # "controller" /\ main'.pc = "controller" =>
                main.pc = "bootstrap")
          /\ (~cache.started /\ cache'.started => main.pc = "controller")
          /\ (worker.pc = "none" /\ worker'.pc # "none" => cache.started)
          /\ (main.pc = "exited" => main'.pc = "exited")]_vars

C22_Witness ==
    /\ main.pc = "exited"
    /\ ~main.kosmos
    /\ ctxDone
    /\ ~prev.ok
    /\ versionsFile.exists /\ versionsFile.valid
    /\ ~cache.started
    /\ worker.pc = "none"

-----------------------------------------------------------------------------
(* Properties of runs that follow a run that failed *)

\* run e has returned, and nothing it called failed: no file, service or script
\* operation, no access to the repository or to the version store, and it was
\* not cancelled
NothingFailed(e) ==
    /\ e.pc = "done"
    /\ e.err \notin {"files", "services", "scripts", "store version", "get version",
                     "repository", "cleanup", "context cancelled"}

\* every resolved component of run e has a recipe block for its target version
TargetsHaveRecipes(e) ==
    \A k \in 1..Len(e.components) :
        ~componentMetada(e.components[k].Name, Expected(e, e.components[k])).err

\* a run before run e left a resolved component with its uninstall step made
\* and its install step not made
LeftUninstalled(e) ==
    /\ ~ReadVersions(e.store0).err
    /\ \E k \in 1..Len(e.components) :
          Stored(e.store0, e.components[k].Name) = Uninstalled

\* C23: a run with the same manifest and metadata that follows a run that
\* stopped after the uninstall step of a component and before its install step,
\* and in which nothing fails, returns success and leaves every resolved
\* component recorded at its expanded target version.
C23_RecoversAfterPartialRun ==
    LET e == eng["main"]
    IN LeftUninstalled(e) /\ TargetsHaveRecipes(e) /\ NothingFailed(e) =>
         /\ Succeeded(e)
         /\ \A k \in 1..Len(e.components) :
                Stored(versionsFile, e.components[k].Name)
                    = Expected(e, e.components[k])

-----------------------------------------------------------------------------
(* Properties of the uninstall pass *)

\* the store file has an entry for the component
HasEntry(file, name) == name \in DOMAIN ReadVersions(file).versions

\* C24: at a component of the uninstall pass (the run not cancelled, the store
\* readable) the uninstall groups are taken up if and only if the store has an
\* entry for the component that differs from the expanded target version; the
\* groups taken up are those of the recipe block keyed by the stored version
\* cut at its first tilde; when the recipe has no such block the run returns
\* an error and the store is left alone; otherwise the component is passed
\* over.  Uninstall groups are applied for no other component.
C24_UninstallCriterion ==
    /\ [](LET e == eng["main"]
          IN e.pc = "apply" /\ e.pass = "uninstall" =>
               /\ HasEntry(e.store0, e.name)
               /\ Stored(e.store0, e.name) # Expected(e, ComponentOf(e, e.name))
               /\ e.resources =
                     ComponentSections(trimVersion(Stored(e.store0, e.name))).Uninstall)
    /\ [][LET e == eng["main"]
              f == eng'["main"]
              component == PassOrder(e, "uninstall")[e.i]
              installed == Stored(versionsFile, component.Name)
              due == /\ HasEntry(versionsFile, component.Name)
                     /\ installed # Expected(e, component)
              block == trimVersion(installed)
          IN e.pc = "uninstall" /\ f # e /\ ~ctxDone
                /\ ~ReadVersions(versionsFile).err =>
               /\ (f.pc = "apply" <=> (due /\ block \in RecipeVersions))
               /\ (due /\ block \in RecipeVersions =>
                     /\ f.pass = "uninstall" /\ f.name = component.Name /\ f.g = 1
                     /\ f.resources = ComponentSections(block).Uninstall)
               /\ (due /\ block \notin RecipeVersions =>
                     /\ f.pc = "done" /\ f.err = "component metadata"
                     /\ versionsFile' = versionsFile)
               /\ (~due => f.err = "nil" /\ f.log = e.log)]_vars

C24_Witness ==
    LET e == eng["main"]
    IN /\ e.pc = "apply" /\ e.pass = "uninstall" /\ e.g > 1
       /\ Stored(e.store0, e.name) = <<"2", Tilde, "4">>
       /\ Expected(e, ComponentOf(e, e.name)) = <<"1">>
       /\ e.resources = ComponentSections(<<"2">>).Uninstall
       /\ e.resources # ComponentSections(<<"1">>).Uninstall

\* C25: the paths given to the file operations of an uninstall group are the
\* recipe's paths rendered with the version the store recorded for the
\* component when the run started, cut at its first tilde.
C25_UninstallPathsOfInstalled ==
    LET e == eng["main"]
    IN e.pass = "uninstall" /\ e.paths # <<>> =>
         \E g \in 1..Len(e.resources) :
             e.paths = processComponentFiles(Stored(e.store0, e.name),
                                             e.resources[g].Files)

\* C28: the worker goroutine exists, and an item is handed out or handled, only
\* when the informer has synced; Run leaves its wait for the sync either with
\* the cache synced, starting the worker, or on the cancelled context,
\* returning an error (main exits) with no worker started, and then none is
\* started later and no handler runs; with the context cancelled and the cache
\* not synced the wait can only end on the error; a worker goroutine that finds
\* the context cancelled at its start stops without taking an item.
C28_WorkerAfterSync ==
    /\ [](/\ worker.pc # "none" \/ queue.processing \/ InHandler => cache.synced
          /\ main.pc = "waitSync" => worker.pc = "none")
    /\ [][(main.pc = "waitSync" /\ main'.pc # "waitSync" =>
                \/ /\ cache.synced
                   /\ main'.pc = "blocked"
                   /\ worker'.pc = "enter"
                \/ /\ ctxDone
                   /\ main'.pc = "exited"
                   /\ worker' = worker)
          /\ (main.pc = "waitSync" /\ main'.pc # "waitSync" /\ ~cache.synced =>
                ctxDone /\ main'.pc = "exited")
          /\ (main.pc = "exited" /\ worker.pc = "none" =>
                worker'.pc = "none" /\ queue'.processing = queue.processing)
          /\ (worker.pc = "enter" /\ ctxDone /\ worker' # worker =>
                worker'.pc = "stopped")]_vars

C28_Witness ==
    /\ main.pc = "exited"
    /\ prev.ok
    /\ ctxDone
    /\ cache.started /\ ~cache.synced
    /\ worker.pc = "none"
    /\ ~queue.processing

-----------------------------------------------------------------------------
(* Properties of the upgrade step of the sync handler *)

\* upgradeNode has returned to syncHandler
UpgradeReturned == worker.pc \in {"annotations", "finish"}

\* the event upgradeNode records for the step that failed
FailureEvent(err) ==
    IF err = "credentials" THEN "Failed to get credentials"
    ELSE IF err = "metadata" THEN "Failed to get node metadata"
    ELSE IF err = "install" THEN "Failed to install components"
    ELSE "Failed to remove annotation"

\* C26 as stated: an upgrade attempt that recorded the starting event has
\* recorded, when it returns, exactly one more event: the success event when the
\* trigger was cleared, a failure event otherwise.
C26_OneTerminalEvent ==
    worker.trigger /\ UpgradeReturned =>
        /\ Len(worker.events) = 2
        /\ worker.events[1] = "Node upgrading"
        /\ worker.cleared <=> worker.events[2] = "Node upgraded"

\* C26 amended: an upgrade attempt that recorded the starting event has
\* recorded, when it returns, at most one more event: the success event if and
\* only if the engine run succeeded and the trigger was cleared; the failure
\* event of the step when the credentials, the metadata, the engine run or the
\* update that clears the trigger failed; and no event at all when reading the
\* node again after the engine run failed (the handler then returns the error
\* with the starting event as the last one recorded).
C26_TerminalEventUnlessNodeGone ==
    worker.trigger =>
        /\ worker.events # <<>> /\ worker.events[1] = "Node upgrading"
        /\ ~UpgradeReturned => worker.events = <<"Node upgrading">>
        /\ UpgradeReturned =>
              /\ worker.cleared <=>
                    worker.events = <<"Node upgrading", "Node upgraded">>
              /\ worker.cleared => worker.runOk
              /\ ~worker.cleared =>
                    /\ worker.err \in {"credentials", "metadata", "install",
                                       "get node", "remove annotation"}
                    /\ worker.err = "get node" =>
                          worker.events = <<"Node upgrading">> /\ worker.runOk
                    /\ worker.err # "get node" =>
                          worker.events = <<"Node upgrading", FailureEvent(worker.err)>>

C26_Witness ==
    /\ worker.pc = "finish"
    /\ worker.trigger
    /\ worker.runOk
    /\ worker.err = "get node"
    /\ worker.events = <<"Node upgrading">>

-----------------------------------------------------------------------------
(* Properties of the cancellation of a run *)

\* C27: a run at the head of a component of either pass with the context
\* cancelled returns the error "context cancelled" and does nothing else: no
\* component step is started, no group applied, the store is left alone; a
\* run returns that error from nowhere else.  A run in the middle of a
\* component is not touched by the cancellation: its next steps apply the
\* remaining groups and write the version, or fail on an operation, as they do
\* without cancellation.
C27_CancelAtBoundaries ==
    /\ [](\A t \in Threads :
            eng[t].err = "context cancelled" =>
                /\ ctxDone /\ eng[t].pc = "done"
                /\ eng[t].log[Len(eng[t].log)] = Event(eng[t].pass, "abort", "", 0))
    /\ [][\A t \in Threads :
            LET e == eng[t]
                f == eng'[t]
            IN /\ (e.pc \in {"uninstall", "install"} /\ f # e /\ ctxDone =>
                     /\ f = Abort(e, "context cancelled")
                     /\ versionsFile' = versionsFile)
               /\ (e.pc \in {"uninstall", "install"} /\ f # e /\ ~ctxDone =>
                     f.err # "context cancelled")
               /\ (e.pc \in {"apply", "cleanup"} /\ ~ctxDone /\ ctxDone' => f = e)
               /\ (e.pc = "apply" /\ f # e =>
                     /\ f.err \in {"nil", "files", "services", "scripts",
                                   "store version"}
                     /\ f.err = "nil" /\ ~GroupsDone(e) =>
                           f.g = e.g + 1 /\ f.pc = "apply"
                     /\ f.err = "nil" /\ GroupsDone(e) =>
                           /\ Stored(versionsFile', e.name) = e.version
                           /\ f.log[Len(f.log)] = Event(e.pass, "set", e.name, 0))]_vars

C27_Witness ==
    LET e == eng["main"]
    IN /\ ctxDone
       /\ e.pc = "done"
       /\ e.err = "context cancelled"
       /\ e.pass = "install" /\ e.i = 2
       /\ Len(e.log) >= 2
       /\ e.log[Len(e.log) - 1] = Event("install", "set", e.components[1].Name, 0)
       /\ Stored(versionsFile, e.components[1].Name) = Expected(e, e.components[1])
       /\ Stored(versionsFile, e.components[2].Name) # Expected(e, e.components[2])

\* C30: the handler calls the engine only after it has fetched the credentials
\* and then the metadata, and gives it the metadata the endpoint serves at that
\* moment; when the credentials or the metadata cannot be had the handler
\* returns the error with no engine run started, the version store, the node
\* object and main left as they were; the worker then counts the failure, gives
\* the item to the rate limiter (unless the queue is shut down) and goes on to
\* the next Get: the process does not exit.
C30_FreshMetadataOrRetry ==
    /\ [](/\ worker.pc = "metadata" => worker.fetched = <<"credentials">>
          /\ worker.pc = "running" => worker.fetched = <<"credentials", "metadata">>
          /\ worker.pc = "finish" /\ worker.err \in {"credentials", "metadata"} =>
                /\ ~worker.started /\ ~worker.cleared /\ ~worker.synced
                /\ worker.updates = 0
                /\ eng["worker"].pc = "idle"
                /\ versionsFile = worker.store0
                /\ main.pc \in {"blocked", "waitWorker"})
    /\ [][(worker.pc = "metadata" /\ worker'.pc = "running" =>
                eng'["worker"].meta = declared /\ eng["worker"].pc = "idle")
          /\ (worker.pc \in {"credentials", "metadata"} /\ worker'.pc = "finish" =>
                /\ worker'.err = worker.pc
                /\ eng' = eng /\ versionsFile' = versionsFile
                /\ node' = node /\ main' = main)
          /\ (worker.pc = "finish" /\ worker.err \in {"credentials", "metadata"}
                /\ worker'.pc # "finish" =>
                /\ worker'.pc = "get"
                /\ queue'.failures > 0
                /\ queue'.waiting \/ queue.shuttingDown
                /\ main' = main)]_vars

C30_Witness ==
    /\ worker.pc = "running"
    /\ prev.ok
    /\ prev.meta.PoolVersion = <<"1">>
    /\ eng["worker"].meta.PoolVersion = <<"2">>
    /\ queue.failures > 0

-----------------------------------------------------------------------------
(* Properties of the repository *)

\* the URIs of the list that have a supported form and can be reached
Usable(repos) ==
    {k \in 1..Len(repos) : repos[k].scheme \in {"http", "https", "zip"} /\ repos[k].up}

\* C31: the URIs are tried in their listed order until one is reachable: the
\* repository NewRepoFS returns is the first listed URI that has a supported
\* form and is reachable, an unreachable earlier URI (network location or
\* archive) is passed over, and an error is returned only when no listed URI
\* is reachable or has a supported form
C31_FirstReachableUsed ==
    probe.fn = "open" =>
        LET repos == probe.args[1]
        IN IF Usable(repos) = {}
           THEN probe.out.err
           ELSE /\ ~probe.out.err
                /\ probe.out.index \in Usable(repos)
                /\ \A k \in Usable(repos) : probe.out.index <= k

\* C32: every run of the lifecycle engine that opened a repository invokes the
\* repository's cleanup before it returns, whether it ended in success or in
\* an abort: a returned run holds an opened repository only when the cleanup
\* itself was invoked and failed
C32_CleanupBeforeReturn ==
    \A t \in Threads :
        eng[t].pc = "done" /\ eng[t].repoOpen => eng[t].err = "cleanup"

-----------------------------------------------------------------------------
(* Properties of the service operations *)

\* the command succeeded, or failed for an unknown unit in a disable or a stop
Tolerated(c) ==
    \/ c.exit = 0
    \/ c.cmd = "disable" /\ DisableIgnored(c.exit)
    \/ c.cmd = "stop" /\ StopIgnored(c.exit)

\* C33: the service operations of one batch: exactly one configuration reload
\* precedes all entries; the entries are processed in order, each with its
\* enable/disable step first and then its start/stop step; a disable or a
\* stop that fails for an unknown unit counts as success, so the entry's
\* remaining step and the following entries are still applied and the batch
\* does not fail; any other failure ends the batch with an error
C33_ServiceProtocol ==
    probe.fn = "services" =>
        LET services == probe.args[1]
            out == probe.out
            log == out.log
        IN /\ log[1].cmd = "daemon-reload"
           /\ \A n \in 2..Len(log) :
                /\ log[n].cmd # "daemon-reload"
                /\ log[n].cmd \in {"enable", "disable"} =>
                      /\ log[n].k = (IF n = 2 THEN 1 ELSE log[n - 1].k + 1)
                      /\ n > 2 => log[n - 1].cmd \in {"start", "stop"}
                      /\ log[n].cmd = (IF services[log[n].k].Enabled
                                       THEN "enable" ELSE "disable")
                /\ log[n].cmd \in {"start", "stop"} =>
                      /\ log[n - 1].cmd \in {"enable", "disable"}
                      /\ log[n - 1].k = log[n].k
                      /\ log[n].cmd = (IF services[log[n].k].State = "started"
                                       THEN "start" ELSE "stop")
           /\ \A n \in 1..(Len(log) - 1) : Tolerated(log[n])
           /\ out.pc = "returned" =>
                IF out.err = "nil"
                THEN /\ \A n \in 1..Len(log) : Tolerated(log[n])
                     /\ Len(log) = 1 + 2 * Len(services)
                ELSE \/ ~Tolerated(log[Len(log)])
                     \/ /\ out.k \in 1..Len(services)
                        /\ services[out.k].State \notin {"started", "stopped"}

-----------------------------------------------------------------------------
(* Properties of the file operations *)

\* C34: for every file operation state (file, template, directory, absent)
\* the destination the operation is applied to is the declared destination
\* rendered with the version and the architecture; no operation acts on a
\* path that still holds a template field
C34_DestinationRendered ==
    \A t \in Threads :
        LET e == eng[t]
        IN e.paths # <<>> =>
             /\ \E g \in 1..Len(e.resources) :
                    LET files == e.resources[g].Files
                    IN /\ Len(e.paths) = Len(files)
                       /\ \A k \in 1..Len(files) :
                            /\ e.paths[k].State = files[k].State
                            /\ e.paths[k].dst =
                                   templateComponentPath(files[k].Dst, e.version)
             /\ \A k \in 1..Len(e.paths) :
                    /\ ~Contains(e.paths[k].dst, VersionField)
                    /\ ~Contains(e.paths[k].dst, ArchField)

-----------------------------------------------------------------------------
(* Properties of the components outside the resolved list *)

\* the names of the resolved target list of a run
TargetNames(e) == {e.components[k].Name : k \in 1..Len(e.components)}

\* C35: a run applies no resource operation for, and writes no store entry of,
\* a component that is not in its resolved target list: while the store can
\* be read, every component it recorded at the start of the run and that is
\* outside the list (dropped from the manifest entry or excluded by the tag
\* filter) is recorded with the same version, and no other component outside
\* the list is recorded; a reconciliation that returned without error
\* reports every recorded component, inside the list or not, on the node
C35_OutsideListUntouched ==
    /\ \A t \in Threads :
          LET e == eng[t]
              old == ReadVersions(e.store0)
              new == ReadVersions(versionsFile)
          IN /\ \A k \in 1..Len(e.log) : e.log[k].name \in TargetNames(e) \cup {""}
             /\ e.name \in TargetNames(e) \cup {""}
             /\ e.pc # "idle" /\ ~old.err /\ ~new.err =>
                   /\ DOMAIN old.versions \ TargetNames(e)
                         = DOMAIN new.versions \ TargetNames(e)
                   /\ \A c \in DOMAIN old.versions \ TargetNames(e) :
                         new.versions[c] = old.versions[c]
    /\ worker.pc = "finish" /\ worker.synced /\ worker.err = "nil" =>
          LET stored == ReadVersions(versionsFile).versions
          IN \A c \in DOMAIN stored :
                /\ ComponentAnnotation(c) \in DOMAIN worker.computed
                /\ worker.computed[ComponentAnnotation(c)] = stored[c]
                /\ node.exists =>
                      /\ ComponentAnnotation(c) \in DOMAIN node.ann
                      /\ node.ann[ComponentAnnotation(c)] = stored[c]

\* an upgrade run of the controller has uninstalled and installed the one
\* component of its list, the component left out by the tag filter is still
\* recorded at version 1, and the reconciliation after it has reported both
C35_Witness ==
    /\ worker.pc = "finish" /\ worker.synced /\ worker.err = "nil"
    /\ worker.runOk /\ worker.cleared
    /\ node.exists
    /\ prev.ok /\ prev.meta = [PoolVersion |-> <<"2">>, InstallerTags |-> <<"gpu", "kosmos">>]
    /\ Stored(versionsFile, "cni") = <<"1">>
    /\ Stored(versionsFile, "kubelet") = <<"2", Tilde, "4">>
    /\ node.ann[ComponentAnnotation("cni")] = <<"1">>
    /\ node.ann[ComponentAnnotation("kubelet")] = <<"2", Tilde, "4">>

-----------------------------------------------------------------------------
(* Properties of the upgrade trigger *)

\* the one trigger the outside actor set has been cleared on the cluster's
\* node object by the handler, and the outside actor makes no further change
TriggerServed ==
    /\ extLeft = 0
    /\ node.exists
    /\ UpgradeAnnotation \notin DOMAIN node.ann

\* the handler records the 'starting' event of an upgrade attempt
UpgradeStarts == worker.pc = "upgrade" /\ worker'.pc = "credentials"

\* processComponents is called from the handler
EngineRunStarts == eng["worker"].pc = "idle" /\ eng'["worker"].pc # "idle"

\* C36: each externally set upgrade trigger causes at most one successful
\* upgrade: once a handler invocation has completed an engine run and cleared
\* the trigger on the cluster's node object, no later invocation records
\* another 'starting' event or starts another engine run unless the outside
\* actor sets the trigger again, whatever the watch cache holds
C36_OneUpgradePerTrigger ==
    [][TriggerServed => ~UpgradeStarts /\ ~EngineRunStarts]_vars

-----------------------------------------------------------------------------
(* Properties of the annotations outside the version report *)

\* the annotations whose key does not start with the component prefix
OtherPart(ann) == [k \in {j \in DOMAIN ann : ~HasComponentPrefix(j)} |-> ann[k]]

\* the step of the handler that is syncVersionsAnnotations
Reconciles == worker.pc = "annotations" /\ worker'.pc # "annotations"

\* C37: the reconciliation of the version report never adds, changes or
\* removes an annotation whose key does not start with the component prefix:
\* the copy it computes carries the other annotations of the copy it read,
\* and its step leaves those of the cluster's node object, the upgrade
\* trigger among them, as they were, whether the copy it read was the
\* cluster's current object or an older one
C37_ReportLeavesOthers ==
    /\ [](worker.synced /\ worker.err \notin {"list versions", "get node"} =>
             OtherPart(worker.computed) = OtherPart(worker.current))
    /\ [][Reconciles =>
             /\ node'.exists = node.exists
             /\ OtherPart(node'.ann) = OtherPart(node.ann)
             /\ AnnotationValue(node') = AnnotationValue(node)]_vars

\* a reconciliation has started from a copy that still carries the trigger
\* the handler cleared on the cluster, computed new component annotations and
\* called the update, and the cluster's node is still without the trigger
C37_Witness ==
    /\ worker.pc = "finish" /\ worker.synced
    /\ worker.cleared
    /\ worker.updates = 1
    /\ UpgradeRequested(worker.current)
    /\ worker.computed # worker.current
    /\ node.exists
    /\ UpgradeAnnotation \notin DOMAIN node.ann

-----------------------------------------------------------------------------
(* Properties of the two modes *)

\* C38: in Kosmos mode the process makes the bootstrap run and then ends:
\* main is at its start, in the run, returned after a run without error or
\* exited; no controller, informer, queue item, worker or handler run ever
\* exists, and the node object, upgrade trigger included, is never changed;
\* a bootstrap run without error leads to the controller in the other mode,
\* and only in it
C38_KosmosExits ==
    /\ [](main.kosmos =>
            /\ main.pc \in {"start", "bootstrap", "returned", "exited"}
            /\ main.pc = "returned" => prev.ok
            /\ cache = NoController
            /\ queue = NewQueue
            /\ worker = IdleWorker
            /\ eng["worker"] = IdleEngine)
    /\ [][(main.kosmos => node' = node)
          /\ (main.pc = "bootstrap" /\ main'.pc # "bootstrap"
                 /\ eng["main"].err = "nil" =>
                     main'.pc = (IF main.kosmos THEN "returned" ELSE "controller"))
          /\ (main'.pc = "controller" => ~main.kosmos)]_vars

\* the agent has ended in Kosmos mode after a bootstrap run that installed
\* the component, on a node that carries the upgrade trigger
C38_Witness ==
    /\ main.kosmos
    /\ main.pc = "returned"
    /\ prev.ok
    /\ Stored(versionsFile, "kubelet") = <<"1">>
    /\ UpgradeRequested(node.ann)
    /\ cache = NoController
    /\ worker = IdleWorker

====
